----------------------- MODULE NfsCompileCacheProofs -----------------------
(***************************************************************************)
(* What NfsCompileCache keeps for any jobs, lockfiles, pull requests and   *)
(* number of keys to keep.                                                 *)
(***************************************************************************)
EXTENDS NfsCompileCache, SequenceTheorems, FiniteSetTheorems, NaturalsInduction, TLAPS

(***************************************************************************)
(* Steps leave a job's context and key alone, and every step is a job's or *)
(* the night's.                                                            *)
(***************************************************************************)
Contextual == {Main, Queue, Dispatch} \cup PRs

TypeInv ==
    /\ ctx \in [Jobs -> Contextual] /\ key \in [Jobs -> Keys] /\ DOMAIN pc = Jobs
    /\ scopes \in [Jobs -> Seq(Scopes)]
    /\ DOMAIN listing = Jobs /\ DOMAIN local = Jobs /\ DOMAIN manifest = Jobs /\ DOMAIN due = Jobs
    /\ tmp \in [Jobs -> SUBSET Nat] /\ clock \in Nat
    /\ \A d \in DOMAIN shelf : shelf[d].mtime \in Nat /\ d.by \in Jobs

Night == _sweep_pr_scopes \/ cmd_cleanup

LEMMA ReadsScopes == ASSUME NEW c \in Contextual PROVE read_scopes(c) \in Seq(Scopes)
<1>1. Main \in Scopes /\ (c \in PRs => c \in Scopes)
  BY DEF Scopes
<1>2. CASE c \in PRs
  <2>1. <<c, Main>> \in Seq(Scopes)
    BY <1>1, <1>2
  <2> QED
    BY <1>2, <2>1 DEF read_scopes
<1>3. CASE c \notin PRs
  <2>1. <<Main>> \in Seq(Scopes)
    BY <1>1
  <2> QED
    BY <1>3, <2>1 DEF read_scopes
<1> QED
  BY <1>2, <1>3

LEMMA TypeInit == Init => TypeInv
<1> SUFFICES ASSUME Init PROVE TypeInv
  OBVIOUS
<1>1. ctx \in [Jobs -> Contextual]
  <2>1. PICK c \in [Jobs \ Past -> Contexts] :
            ctx = [j \in Jobs |-> IF j \in Past THEN Main ELSE c[j]]
    BY DEF Init
  <2> QED
    BY <2>1, CacheAssumption DEF Contextual
<1>2. scopes \in [Jobs -> Seq(Scopes)]
  BY DEF Init
<1>3. \A d \in DOMAIN shelf : shelf[d].mtime \in Nat /\ d.by \in Jobs
  BY CacheAssumption DEF Init
<1> QED
  BY <1>1, <1>2, <1>3 DEF Init, TypeInv

LEMMA TypeStep == TypeInv /\ [Next]_vars => TypeInv'
<1> SUFFICES ASSUME TypeInv, [Next]_vars PROVE TypeInv'
  OBVIOUS
<1> USE DEF TypeInv, Goto, jobvars, cleanvars, nfs
<1>1. ASSUME NEW j \in Jobs, Restore(j) PROVE TypeInv'
  <2>1. read_scopes(ctx[j]) \in Seq(Scopes)
    BY ReadsScopes
  <2> QED
    BY <1>1, <2>1 DEF Restore
<1>2. ASSUME NEW j \in Jobs, List(j) PROVE TypeInv'
  <2>1. Tail(scopes[j]) \in Seq(Scopes)
    BY <1>2 DEF List
  <2> QED
    BY <1>2, <2>1 DEF List
<1>3. ASSUME NEW j \in Jobs, _restore_delta(j) PROVE TypeInv'
  BY <1>3 DEF _restore_delta
<1>4. ASSUME NEW j \in Jobs, SkipDelta(j) PROVE TypeInv'
  BY <1>4 DEF SkipDelta, Minus, Restrict
<1>5. ASSUME NEW j \in Jobs, ScopeDone(j) \/ StartCold(j) PROVE TypeInv'
  <2>1. <<>> \in Seq(Scopes)
    OBVIOUS
  <2>2. CASE ScopeDone(j)
    BY <2>2 DEF ScopeDone
  <2>3. CASE StartCold(j)
    BY <2>1, <2>3 DEF StartCold
  <2> QED
    BY <1>5, <2>2, <2>3
<1>6. ASSUME NEW j \in Jobs, Compile(j) \/ TestsFail(j) \/ Kill(j) PROVE TypeInv'
  BY <1>6 DEF Compile, TestsFail, Kill
<1>7. ASSUME NEW j \in Jobs, Save(j) \/ StartTar(j) \/ FinishTar(j) \/ SaveFails(j)
      PROVE  TypeInv'
  <2>1. CASE Save(j)
    BY <2>1 DEF Save
  <2>2. CASE StartTar(j) \/ FinishTar(j)
    BY <2>2 DEF StartTar, FinishTar
  <2>3. CASE SaveFails(j)
    BY <2>3 DEF SaveFails
  <2> QED
    BY <1>7, <2>1, <2>2, <2>3
<1>8. ASSUME NEW j \in Jobs, Replace(j) PROVE TypeInv'
  <2>1. PICK mtime \in tmp[j] :
            shelf' = Overlay([d \in {Delta(j)} |-> [files |-> Restrict(local[j], New(j)),
                                                   mtime |-> mtime]], shelf)
    BY <1>8 DEF Replace
  <2>2. Delta(j).by = j /\ mtime \in Nat
    BY DEF Delta
  <2>3. \A d \in DOMAIN shelf' : shelf'[d].mtime \in Nat /\ d.by \in Jobs
    BY <2>1, <2>2 DEF Overlay
  <2> QED
    BY <1>8, <2>3 DEF Replace
<1>9. CASE Night
  <2>1. CASE _sweep_pr_scopes
    BY <2>1 DEF _sweep_pr_scopes, Minus, Restrict
  <2>2. ASSUME NEW dir, Rmtree(dir) PROVE TypeInv'
    BY <2>2 DEF Rmtree, Minus, Restrict
  <2>3. CASE UNCHANGED <<jobvars, tmp, shelf, clock>>
    BY <2>3
  <2> QED
    BY <1>9, <2>1, <2>2, <2>3
       DEF Night, cmd_cleanup, EnterScope, Rank, Choose, Rmdir, RmdirEmpty, LeaveScope
<1>10. CASE UNCHANGED vars
  BY <1>10 DEF vars
<1> QED
  BY <1>1, <1>2, <1>3, <1>4, <1>5, <1>6, <1>7, <1>8, <1>9, <1>10 DEF Next, Job, Night

THEOREM TypesHold == Spec => []TypeInv
  BY TypeInit, TypeStep, PTL DEF Spec

(***************************************************************************)
(* What a job has beyond its manifest it compiled itself, so that is all a *)
(* delta holds.                                                            *)
(***************************************************************************)
Compiled == {"compile", "save", "tar", "writing", "replace"}

JobOwn(j) ==
    pc[j] \in Compiled => \A g \in DOMAIN local[j] \ manifest[j] : local[j][g] = Origin(j)

ShelfOwn == \A d \in DOMAIN shelf : \A g \in DOMAIN shelf[d].files :
                shelf[d].files[g] = Origin(d.by)

OwnInv == ShelfOwn /\ \A j \in Jobs : JobOwn(j)

\* Deltas only go: those that stay are as they were.
Shrinks == \A d \in DOMAIN shelf' : d \in DOMAIN shelf /\ shelf'[d] = shelf[d]

LEMMA MinusShrinks == ASSUME NEW D, shelf' = Minus(D) PROVE Shrinks
  BY DEF Minus, Restrict, Shrinks

\* The night changes nothing of a job's but its temporary file, and only removes deltas.
LEMMA NightShrinks ==
    ASSUME Night
    PROVE  Shrinks /\ UNCHANGED <<ctx, key, pc, scopes, listing, local, manifest, due, clock>>
<1>1. CASE _sweep_pr_scopes
  BY <1>1, MinusShrinks DEF _sweep_pr_scopes, jobvars
<1>2. ASSUME NEW dir, Rmtree(dir)
      PROVE  Shrinks /\ UNCHANGED <<jobvars, clock>>
  BY <1>2, MinusShrinks DEF Rmtree, jobvars
<1>3. CASE UNCHANGED <<jobvars, shelf, clock>>
  BY <1>3 DEF jobvars, Shrinks
<1> QED
  BY <1>1, <1>2, <1>3
     DEF Night, cmd_cleanup, EnterScope, Rank, Choose, Rmdir, RmdirEmpty, LeaveScope, jobvars, nfs

\* Any other step is one job's, which leaves the others and the cleanup's place alone.
Alone(j) ==
    /\ ctx' = ctx /\ key' = key
    /\ \A u \in Jobs \ {j} :
          /\ pc'[u] = pc[u] /\ scopes'[u] = scopes[u] /\ listing'[u] = listing[u]
          /\ local'[u] = local[u] /\ manifest'[u] = manifest[u] /\ tmp'[u] = tmp[u]
          /\ due'[u] = due[u]
    /\ UNCHANGED <<cpc, at, todo, births, stale, doomed>>

LEMMA JobsAlone == ASSUME TypeInv, NEW j \in Jobs, Job(j) PROVE Alone(j)
<1> USE DEF TypeInv, Goto, jobvars, cleanvars, nfs, Alone
<1>1. CASE Restore(j) \/ List(j) \/ _restore_delta(j)
  BY <1>1 DEF Restore, List, _restore_delta
<1>2. CASE SkipDelta(j)
  BY <1>2 DEF SkipDelta
<1>3. CASE ScopeDone(j)
  BY <1>3 DEF ScopeDone
<1>4. CASE StartCold(j)
  BY <1>4 DEF StartCold
<1>5. CASE Compile(j) \/ TestsFail(j) \/ Kill(j)
  BY <1>5 DEF Compile, TestsFail, Kill
<1>6. CASE Save(j)
  BY <1>6 DEF Save
<1>7. CASE StartTar(j) \/ FinishTar(j) \/ SaveFails(j)
  BY <1>7 DEF StartTar, FinishTar, SaveFails
<1>8. CASE Replace(j)
  BY <1>8 DEF Replace
<1> QED
  BY <1>1, <1>2, <1>3, <1>4, <1>5, <1>6, <1>7, <1>8 DEF Job

\* Only Replace adds a delta.
LEMMA JobShrinks == ASSUME NEW j \in Jobs, Job(j), ~Replace(j) PROVE Shrinks
<1>1. CASE SkipDelta(j)
  BY <1>1, MinusShrinks DEF SkipDelta, Shrinks
<1>2. CASE UNCHANGED shelf
  BY <1>2 DEF Shrinks
<1> QED
  BY <1>1, <1>2 DEF Job, Restore, List, _restore_delta, ScopeDone, StartCold, Compile, TestsFail,
                    Save, StartTar, FinishTar, SaveFails, Kill, nfs

LEMMA OwnInit == Init => OwnInv
  BY DEF Init, OwnInv, ShelfOwn, JobOwn, Compiled

LEMMA ShelfOwnKept ==
    ASSUME ShelfOwn, Shrinks, UNCHANGED <<ctx, key>> PROVE ShelfOwn'
  BY DEF ShelfOwn, Shrinks, Origin

LEMMA OwnStep == TypeInv /\ OwnInv /\ [Next]_vars => OwnInv'
<1> SUFFICES ASSUME TypeInv, OwnInv, [Next]_vars PROVE OwnInv'
  OBVIOUS
<1>1. ASSUME NEW j \in Jobs, Job(j) PROVE OwnInv'
  <2>1. Alone(j)
    BY <1>1, JobsAlone
  <2>2. JobOwn(j) /\ ShelfOwn
    BY DEF OwnInv
  <2>3. JobOwn(j)'
    <3> USE DEF TypeInv, Goto, Compiled
    <3>1. CASE Restore(j) \/ List(j) \/ _restore_delta(j) \/ SkipDelta(j)
      BY <3>1 DEF Restore, List, _restore_delta, SkipDelta, JobOwn
    <3>2. CASE ScopeDone(j)
      <4>1. CASE scopes[j] # <<>>
        BY <3>2, <4>1 DEF ScopeDone, JobOwn
      <4>2. CASE scopes[j] = <<>>
        <5>1. local' = local /\ manifest'[j] = DOMAIN local[j]
          BY <3>2, <4>2 DEF ScopeDone
        <5> QED
          BY <5>1 DEF JobOwn
      <4> QED
        BY <4>1, <4>2
    <3>3. CASE StartCold(j)
      <4>1. local'[j] = <<>> /\ DOMAIN local'[j] = {}
        BY <3>3 DEF StartCold
      <4> QED
        BY <4>1 DEF JobOwn
    <3>4. CASE Compile(j)
      <4>1. PICK needs \in SUBSET Graphs :
                local' = [local EXCEPT ![j] = Overlay(@, [g \in needs |-> Origin(j)])]
        BY <3>4 DEF Compile
      <4>2. local'[j] = Overlay(local[j], [g \in needs |-> Origin(j)])
        BY <4>1
      <4>3. manifest' = manifest /\ Origin(j)' = Origin(j)
        BY <3>4 DEF Compile, Origin
      <4>4. \A g \in DOMAIN local[j] \ manifest[j] : local[j][g] = Origin(j)
        BY <2>2, <3>4 DEF JobOwn, Compile
      <4>5. \A g \in DOMAIN local'[j] \ manifest'[j] : local'[j][g] = Origin(j)'
        BY <4>2, <4>3, <4>4 DEF Overlay
      <4> QED
        BY <4>5 DEF JobOwn
    <3>5. CASE Save(j) \/ StartTar(j) \/ FinishTar(j)
      <4>1. local' = local /\ manifest' = manifest /\ pc[j] \in Compiled
        BY <3>5 DEF Save, StartTar, FinishTar
      <4>2. Origin(j)' = Origin(j)
        BY <2>1 DEF Alone, Origin
      <4> QED
        BY <2>2, <4>1, <4>2 DEF JobOwn
    <3>6. CASE TestsFail(j) \/ Replace(j) \/ SaveFails(j) \/ Kill(j)
      BY <3>6 DEF TestsFail, Replace, SaveFails, Kill, JobOwn
    <3> QED
      BY <1>1, <3>1, <3>2, <3>3, <3>4, <3>5, <3>6 DEF Job
  <2>4. ASSUME NEW u \in Jobs \ {j} PROVE JobOwn(u)'
    <3>1. JobOwn(u)
      BY DEF OwnInv
    <3> QED
      BY <2>1, <3>1 DEF Alone, JobOwn, Origin
  <2>5. ShelfOwn'
    <3>1. CASE Replace(j)
      <4>1. PICK mtime \in tmp[j] :
                shelf' = Overlay([d \in {Delta(j)} |-> [files |-> Restrict(local[j], New(j)),
                                                       mtime |-> mtime]], shelf)
        BY <3>1 DEF Replace
      <4>2. \A g \in New(j) : local[j][g] = Origin(j)
        BY <2>2, <3>1 DEF JobOwn, Replace, Compiled, New
      <4>3. Delta(j).by = j
        BY DEF Delta
      <4>4. shelf'[Delta(j)].files = Restrict(local[j], New(j))
        BY <4>1 DEF Overlay
      <4>5. \A d \in DOMAIN shelf' \ {Delta(j)} : d \in DOMAIN shelf /\ shelf'[d] = shelf[d]
        BY <4>1 DEF Overlay
      <4>6. \A g \in DOMAIN shelf'[Delta(j)].files :
                shelf'[Delta(j)].files[g] = Origin(j)
        BY <4>2, <4>4 DEF Restrict
      <4>7. \A u : Origin(u)' = Origin(u)
        BY <2>1 DEF Alone, Origin
      <4> QED
        BY <2>2, <4>3, <4>5, <4>6, <4>7 DEF ShelfOwn
    <3>2. CASE ~Replace(j)
      BY <1>1, <2>1, <2>2, <3>2, JobShrinks, ShelfOwnKept DEF Alone
    <3> QED
      BY <3>1, <3>2
  <2> QED
    BY <2>3, <2>4, <2>5 DEF OwnInv
<1>2. CASE Night
  <2>1. ShelfOwn'
    BY <1>2, NightShrinks, ShelfOwnKept DEF OwnInv
  <2>2. \A j \in Jobs : JobOwn(j)'
    BY <1>2, NightShrinks DEF OwnInv, JobOwn, Origin
  <2> QED
    BY <2>1, <2>2 DEF OwnInv
<1>3. CASE UNCHANGED vars
  BY <1>3 DEF vars, jobvars, nfs, OwnInv, ShelfOwn, JobOwn, Origin
<1> QED
  BY <1>1, <1>2, <1>3 DEF Next, Night

\* "each job writes only the files it compiled" (nfs_compile_cache.py): whatever jobs restore
\* from one another, in whichever order and wherever they are killed.
THEOREM DeltasAreTheirJobsOwn == Spec => []ShipsItsOwn
<1>1. OwnInv => ShipsItsOwn
  BY DEF OwnInv, ShelfOwn, ShipsItsOwn, Range
<1> QED
  BY <1>1, TypeInit, TypeStep, OwnInit, OwnStep, PTL DEF Spec

(***************************************************************************)
(* A delta a restore must not miss is still in a scope to come, listed, or *)
(* merged.  Its writer has ended, so nothing is put in its place.          *)
(***************************************************************************)
Ended == (\A d \in DOMAIN shelf : pc[d.by] = "done") /\ \A j \in Jobs : \A d \in due[j] : pc[d.by] = "done"

Merged(j, d) == DOMAIN shelf[d].files \subseteq DOMAIN local[j]

RestoreInv(j) ==
    /\ \A d \in due[j] : d.by \in Jobs /\ d = [scope |-> d.scope, key |-> key[j], by |-> d.by]
    /\ pc[j] \in {"restore", "list"} => listing[j] = {}
    /\ pc[j] \in {"list", "extract"} =>
          \A d \in due[j] \cap DOMAIN shelf :
              d \in listing[j] \/ d.scope \in Range(scopes[j]) \/ Merged(j, d)
    /\ pc[j] = "compile" => \A d \in due[j] \cap DOMAIN shelf : Merged(j, d)

Shapes == \A d \in DOMAIN shelf : d = [scope |-> d.scope, key |-> d.key, by |-> d.by]

UnionInv == Shapes /\ Ended /\ \A j \in Jobs : RestoreInv(j)

LEMMA UnionInit == Init => UnionInv
<1> SUFFICES ASSUME Init PROVE UnionInv
  OBVIOUS
<1>1. \A d \in DOMAIN shelf : \E j \in Past : d = [scope |-> Main, key |-> key[j], by |-> j]
  BY DEF Init
<1>2. Shapes
  BY <1>1 DEF Shapes
<1>3. Ended
  BY <1>1, CacheAssumption DEF Init, Ended
<1>4. \A j \in Jobs : RestoreInv(j)
  BY DEF Init, RestoreInv
<1> QED
  BY <1>2, <1>3, <1>4 DEF UnionInv

LEMMA HeadAndTail ==
    ASSUME NEW S, NEW s \in Seq(S), s # <<>>
    PROVE  Range(s) = {Head(s)} \cup Range(Tail(s))
<1>1. Len(s) \in Nat \ {0} /\ DOMAIN s = 1..Len(s) /\ Head(s) = s[1]
  OBVIOUS
<1>2. /\ DOMAIN Tail(s) = 1..(Len(s) - 1)
      /\ \A i \in 1..(Len(s) - 1) : Tail(s)[i] = s[i + 1]
  BY <1>1
<1>3. ASSUME NEW i \in 1..Len(s) PROVE s[i] \in {Head(s)} \cup Range(Tail(s))
  <2>1. CASE i = 1
    BY <1>1, <2>1
  <2>2. CASE i # 1
    <3>1. i - 1 \in 1..(Len(s) - 1) /\ s[i] = Tail(s)[i - 1]
      BY <1>1, <1>2, <2>2
    <3> QED
      BY <1>2, <3>1 DEF Range
  <2> QED
    BY <2>1, <2>2
<1>4. ASSUME NEW i \in 1..(Len(s) - 1) PROVE Tail(s)[i] \in Range(s)
  <2>1. i + 1 \in DOMAIN s /\ Tail(s)[i] = s[i + 1]
    BY <1>1, <1>2
  <2> QED
    BY <2>1 DEF Range
<1>5. Head(s) \in Range(s)
  <2>1. 1 \in DOMAIN s
    BY <1>1
  <2> QED
    BY <1>1, <2>1 DEF Range
<1> QED
  BY <1>1, <1>2, <1>3, <1>4, <1>5 DEF Range

\* A restore loses nothing while the shelf only shrinks and nobody else touches what it has.
LEMMA RestoreKept ==
    ASSUME NEW j \in Jobs, RestoreInv(j), Shrinks, key' = key,
           pc'[j] = pc[j], scopes'[j] = scopes[j], listing'[j] = listing[j],
           local'[j] = local[j], due'[j] = due[j]
    PROVE  RestoreInv(j)'
  BY DEF RestoreInv, Shrinks, Merged

LEMMA JobsEnd == ASSUME TypeInv, NEW j \in Jobs, Job(j) PROVE pc[j] # "done"
  BY DEF Job, Restore, List, _restore_delta, SkipDelta, ScopeDone, StartCold, Compile, TestsFail,
         Save, StartTar, FinishTar, Replace, SaveFails, Kill

LEMMA DueShrinks ==
    ASSUME TypeInv, NEW j \in Jobs, Job(j), ~Restore(j)
    PROVE  due'[j] \subseteq due[j]
<1>1. DOMAIN due = Jobs
  BY DEF TypeInv
<1>2. CASE SkipDelta(j)
  BY <1>1, <1>2 DEF SkipDelta
<1>3. CASE StartCold(j)
  BY <1>1, <1>3 DEF StartCold
<1>4. CASE List(j) \/ _restore_delta(j) \/ ScopeDone(j) \/ Compile(j) \/ TestsFail(j)
  BY <1>4 DEF List, _restore_delta, ScopeDone, Compile, TestsFail
<1>5. CASE Save(j) \/ StartTar(j) \/ FinishTar(j) \/ Replace(j) \/ SaveFails(j) \/ Kill(j)
  BY <1>5 DEF Save, StartTar, FinishTar, Replace, SaveFails, Kill
<1> QED
  BY <1>2, <1>3, <1>4, <1>5 DEF Job

LEMMA UnionStep == TypeInv /\ UnionInv /\ [Next]_vars => UnionInv'
<1> SUFFICES ASSUME TypeInv, UnionInv, [Next]_vars PROVE UnionInv'
  OBVIOUS
<1>1. ASSUME NEW j \in Jobs, Job(j), ~Replace(j) PROVE UnionInv'
  <2>1. Alone(j) /\ Shrinks /\ pc[j] # "done"
    BY <1>1, JobsAlone, JobShrinks, JobsEnd
  <2>2. Shapes /\ Ended /\ RestoreInv(j)
    BY DEF UnionInv
  <2>3. Shapes'
    BY <2>1, <2>2 DEF Shapes, Shrinks
  <2>a. \A u \in Jobs : pc[u] = "done" => pc'[u] = "done"
    BY <2>1 DEF Alone
  <2>b. (\A d \in DOMAIN shelf : d.by \in Jobs) /\ \A u \in Jobs : \A d \in due[u] : d.by \in Jobs
    BY DEF TypeInv, UnionInv, RestoreInv
  <2>4. due'[j] \subseteq due[j] \/ Restore(j)
    BY <1>1, DueShrinks
  <2>5. CASE Restore(j)
    <3> USE <2>5 DEF Restore, Goto, TypeInv
    <3>1. /\ due'[j] = {d \in DOMAIN shelf : d.key = key[j] /\ d.scope \in Range(read_scopes(ctx[j]))}
          /\ scopes'[j] = read_scopes(ctx[j]) /\ pc'[j] = "list" /\ listing'[j] = listing[j]
          /\ shelf' = shelf
      BY DEF nfs
    <3>2. Ended'
      BY <2>1, <2>2, <3>1 DEF Ended, Alone
    <3>3. RestoreInv(j)'
      BY <2>1, <2>2, <3>1 DEF RestoreInv, Shapes, Alone
    <3>4. \A u \in Jobs \ {j} : RestoreInv(u)'
      BY <2>1, RestoreKept DEF UnionInv, Alone
    <3> QED
      BY <2>3, <3>2, <3>3, <3>4 DEF UnionInv
  <2>6. CASE ~Restore(j)
    <3>1. Ended'
      <4>1. \A u \in Jobs : due'[u] \subseteq due[u]
        BY <2>1, <2>4, <2>6 DEF Alone
      <4>2. \A d \in DOMAIN shelf' : pc'[d.by] = "done"
        BY <2>1, <2>2, <2>a, <2>b DEF Ended, Shrinks
      <4>3. \A u \in Jobs : \A d \in due'[u] : pc'[d.by] = "done"
        BY <2>2, <2>a, <2>b, <4>1 DEF Ended
      <4> QED
        BY <4>2, <4>3 DEF Ended
    <3>2. \A u \in Jobs \ {j} : RestoreInv(u)'
      BY <2>1, RestoreKept DEF UnionInv, Alone
    <3>3. key' = key
      BY <2>1 DEF Alone
    <3>4. RestoreInv(j)'
      <4> USE DEF Goto, TypeInv
      <4>1. CASE List(j)
        <5>1. /\ scopes[j] \in Seq(Scopes) /\ scopes[j] # <<>> /\ scopes'[j] = Tail(scopes[j])
              /\ listing'[j] = _deltas(KeyDir(Head(scopes[j]), key[j]))
              /\ pc'[j] = "extract" /\ pc[j] = "list" /\ shelf' = shelf /\ local' = local /\ due' = due
          BY <4>1 DEF List, nfs
        <5>2. Range(scopes[j]) = {Head(scopes[j])} \cup Range(scopes'[j])
          BY <5>1, HeadAndTail
        <5>3. ASSUME NEW d \in due[j] \cap DOMAIN shelf, d.scope = Head(scopes[j])
              PROVE  d \in listing'[j]
          <6>1. d.key = key[j]
            BY <2>2 DEF RestoreInv
          <6> QED
            BY <5>1, <5>3, <6>1 DEF _deltas, DirOf, KeyDir
        <5>4. ASSUME NEW d \in due[j] \cap DOMAIN shelf
              PROVE  d \in listing'[j] \/ d.scope \in Range(scopes'[j]) \/ Merged(j, d)
          BY <2>2, <5>1, <5>2, <5>3 DEF RestoreInv
        <5>5. \A d : Merged(j, d)' = Merged(j, d)
          BY <5>1 DEF Merged
        <5> QED
          BY <2>2, <3>3, <5>1, <5>4, <5>5 DEF RestoreInv
      <4>2. CASE _restore_delta(j)
        <5>1. PICK d \in listing[j] \cap DOMAIN shelf :
                  /\ local' = [local EXCEPT ![j] = Overlay(shelf[d].files, @)]
                  /\ listing' = [listing EXCEPT ![j] = @ \ {d}]
          BY <4>2 DEF _restore_delta
        <5>2. DOMAIN local'[j] = DOMAIN shelf[d].files \cup DOMAIN local[j]
          BY <5>1 DEF Overlay
        <5>3. /\ shelf' = shelf /\ due' = due /\ scopes' = scopes /\ pc' = pc
              /\ pc[j] = "extract" /\ listing'[j] = listing[j] \ {d}
          BY <4>2, <5>1 DEF _restore_delta, nfs
        <5> QED
          BY <2>2, <3>3, <5>2, <5>3 DEF RestoreInv, Merged
      <4>3. CASE SkipDelta(j)
        <5>1. PICK d \in listing[j] : /\ listing' = [listing EXCEPT ![j] = @ \ {d}]
                                      /\ due' = [due EXCEPT ![j] = @ \ {d}]
          BY <4>3 DEF SkipDelta
        <5>2. /\ listing'[j] = listing[j] \ {d} /\ due'[j] = due[j] \ {d} /\ pc[j] = "extract"
              /\ UNCHANGED <<pc, scopes, local>>
          BY <4>3, <5>1 DEF SkipDelta
        <5> QED
          BY <2>1, <2>2, <3>3, <5>2 DEF RestoreInv, Merged, Shrinks
      <4>4. CASE ScopeDone(j)
        <5>1. /\ UNCHANGED <<scopes, listing, local, due, shelf>> /\ listing[j] = {}
              /\ pc[j] = "extract"
              /\ IF scopes[j] # <<>> THEN pc'[j] = "list" ELSE pc'[j] = "compile"
          BY <4>4 DEF ScopeDone, nfs
        <5>2. CASE scopes[j] # <<>>
          BY <2>2, <3>3, <5>1, <5>2 DEF RestoreInv, Merged
        <5>3. CASE scopes[j] = <<>>
          <6>1. Range(scopes[j]) = {}
            BY <5>3 DEF Range
          <6> QED
            BY <2>2, <3>3, <5>1, <5>3, <6>1 DEF RestoreInv, Merged
        <5> QED
          BY <5>2, <5>3
      <4>5. CASE StartCold(j)
        <5>1. due'[j] = {} /\ pc'[j] = "compile"
          BY <4>5 DEF StartCold
        <5> QED
          BY <5>1 DEF RestoreInv
      <4>6. CASE Compile(j) \/ TestsFail(j) \/ Save(j) \/ StartTar(j) \/ FinishTar(j)
                 \/ SaveFails(j) \/ Kill(j)
        <5>1. pc'[j] \notin {"restore", "list", "extract", "compile"}
          BY <4>6 DEF Compile, TestsFail, Save, StartTar, FinishTar, SaveFails, Kill
        <5> QED
          BY <2>2, <2>4, <2>6, <3>3, <5>1 DEF RestoreInv
      <4> QED
        BY <1>1, <2>6, <4>1, <4>2, <4>3, <4>4, <4>5, <4>6 DEF Job
    <3> QED
      BY <2>3, <3>1, <3>2, <3>4 DEF UnionInv
  <2> QED
    BY <2>5, <2>6
<1>2. ASSUME NEW j \in Jobs, Replace(j) PROVE UnionInv'
  <2>1. Alone(j)
    BY <1>2, JobsAlone DEF Job
  <2>2. Shapes /\ Ended
    BY DEF UnionInv
  <2>3. PICK mtime \in tmp[j] :
            shelf' = Overlay([d \in {Delta(j)} |-> [files |-> Restrict(local[j], New(j)),
                                                   mtime |-> mtime]], shelf)
    BY <1>2 DEF Replace
  <2>4. /\ pc[j] = "replace" /\ pc'[j] = "done"
        /\ UNCHANGED <<ctx, key, scopes, listing, local, due>>
    BY <1>2 DEF Replace, Goto, TypeInv
  <2>5. Delta(j).by = j /\ Shapes'
    BY <2>2, <2>3 DEF Delta, Shapes, Overlay
  <2>6. \A d \in DOMAIN shelf' \ {Delta(j)} : d \in DOMAIN shelf /\ shelf'[d] = shelf[d]
    BY <2>3 DEF Overlay
  <2>7. Ended'
    <3>1. \A u \in Jobs : pc[u] = "done" => pc'[u] = "done"
      BY <2>1, <2>4 DEF Alone
    <3>2. (\A d \in DOMAIN shelf : d.by \in Jobs) /\ \A u \in Jobs : \A d \in due[u] : d.by \in Jobs
      BY DEF TypeInv, UnionInv, RestoreInv
    <3>3. \A d \in DOMAIN shelf' : pc'[d.by] = "done"
      BY <2>2, <2>4, <2>5, <2>6, <3>1, <3>2 DEF Ended
    <3>4. \A u \in Jobs : \A d \in due'[u] : pc'[d.by] = "done"
      BY <2>2, <2>4, <3>1, <3>2 DEF Ended
    <3> QED
      BY <3>3, <3>4 DEF Ended
  <2>8. ASSUME NEW u \in Jobs PROVE RestoreInv(u)'
    <3>1. \A d \in due[u] : d # Delta(j)
      BY <2>2, <2>4, <2>5 DEF Ended
    <3>2. RestoreInv(u)
      BY DEF UnionInv
    <3>3. u # j => pc'[u] = pc[u]
      BY <2>1 DEF Alone
    <3> QED
      BY <2>4, <2>6, <3>1, <3>2, <3>3 DEF RestoreInv, Merged
  <2> QED
    BY <2>5, <2>7, <2>8 DEF UnionInv
<1>3. CASE Night
  <2>1. Shapes' /\ Ended'
    BY <1>3, NightShrinks DEF UnionInv, Shapes, Ended, Shrinks
  <2>2. \A j \in Jobs : RestoreInv(j)'
    BY <1>3, NightShrinks, RestoreKept DEF UnionInv
  <2> QED
    BY <2>1, <2>2 DEF UnionInv
<1>4. CASE UNCHANGED vars
  BY <1>4 DEF vars, jobvars, nfs, UnionInv, Shapes, Ended, RestoreInv, Merged
<1> QED
  BY <1>1, <1>2, <1>3, <1>4 DEF Next, Night

\* "restore extracts every delta under the key" (nfs_compile_cache.py): of those that were
\* there when it began and still are, with evictions, set-aside deltas and savers around it.
THEOREM RestoresAreUnions == Spec => []RestoresTheUnion
<1>1. UnionInv => RestoresTheUnion
  BY DEF UnionInv, RestoreInv, Merged, RestoresTheUnion
<1> QED
  BY <1>1, TypeInit, TypeStep, UnionInit, UnionStep, PTL DEF Spec

(***************************************************************************)
(* The cleanup keeps keys it saw a delta of before any it saw none of, and *)
(* what it keeps has a delta until a job sets the last one aside.          *)
(***************************************************************************)
FiniteInv == IsFiniteSet(dirs) /\ IsFiniteSet(lapsed)

RankInv ==
    /\ stale \subseteq dirs /\ \A dir \in stale : dir.scope = at
    /\ warm \subseteq stale /\ DOMAIN births \subseteq stale
    /\ \A dir \in DOMAIN births :
          /\ births[dir] \in Nat
          /\ births[dir] > 0 => _deltas(dir) # {} \/ dir \in lapsed
          /\ dir \in warm => births[dir] > 0
    /\ \A dir \in warm \ DOMAIN births : _deltas(dir) # {}

\* K, the keys it keeps of those it saw a delta of.
Spared(K) ==
    /\ IsFiniteSet(K) /\ K \cap stale = {}
    /\ \A dir \in K : Seen(dir) /\ dir \in Warm(at) \cup lapsed
    /\ warm \subseteq K \/ Cardinality(K) >= Keep

EvictInv == \E K : Spared(K)

CleanInv ==
    /\ cpc \in {"idle", "rank", "evict", "rmdir"}
    /\ cpc = "rank" => RankInv
    /\ cpc \in {"evict", "rmdir"} => EvictInv

LEMMA CleanBound == ASSUME FiniteInv, CleanInv PROVE CleanupKeepsWarmKeys
<1> DEFINE L == Warm(at) \cup lapsed
<1> SUFFICES ASSUME cpc # "idle" PROVE Cardinality(L) >= Keep \/ Cardinality(L) >= Cardinality(warm)
  BY DEF CleanupKeepsWarmKeys
<1>1. IsFiniteSet(L) /\ Keep \in Nat
  <2>1. Warm(at) \subseteq dirs
    BY DEF Warm
  <2> QED
    BY <2>1, FS_Subset, FS_Union, CacheAssumption DEF FiniteInv
<1>2. ASSUME cpc = "rank" PROVE warm \subseteq L
  BY <1>2 DEF CleanInv, RankInv, Warm
<1>3. ASSUME NEW K, Spared(K) PROVE warm \subseteq L \/ (K \subseteq L /\ Cardinality(K) >= Keep)
  BY <1>3 DEF Spared
<1> HIDE DEF L
<1>4. CASE warm \subseteq L
  <2>1. Cardinality(warm) <= Cardinality(L) /\ IsFiniteSet(warm)
    BY <1>1, <1>4, FS_Subset
  <2> QED
    BY <1>1, <2>1, FS_CardinalityType
<1>5. ASSUME NEW K, K \subseteq L, Cardinality(K) >= Keep PROVE Cardinality(L) >= Keep
  <2>1. IsFiniteSet(K) /\ Cardinality(K) <= Cardinality(L)
    BY <1>1, <1>5, FS_Subset
  <2> QED
    BY <1>1, <1>5, <2>1, FS_CardinalityType
<1> QED
  BY <1>2, <1>3, <1>4, <1>5 DEF CleanInv, EvictInv

LEMMA CleanInit == Init => FiniteInv /\ CleanInv
<1> SUFFICES ASSUME Init PROVE FiniteInv /\ CleanInv
  OBVIOUS
<1>1. CleanInv
  BY DEF Init, CleanInv
<1> DEFINE f == [j \in Past |-> KeyDir(Main, key[j])]
           T == {f[j] : j \in Past}
<1>2. dirs \subseteq T
  <2>1. \A d \in DOMAIN shelf : \E j \in Past : d = [scope |-> Main, key |-> key[j], by |-> j]
    BY DEF Init
  <2>2. \A d \in DOMAIN shelf : DirOf(d) \in T
    BY <2>1 DEF DirOf
  <2>3. dirs = {DirOf(d) : d \in DOMAIN shelf}
    BY DEF Init
  <2> HIDE DEF T
  <2> QED
    BY <2>2, <2>3
<1>3. IsFiniteSet(T)
  <2>1. f \in Surjection(Past, T)
    BY DEF Surjection
  <2> HIDE DEF f, T
  <2> QED
    BY <2>1, CacheAssumption, FS_Surjection
<1>4. IsFiniteSet(dirs)
  <2> HIDE DEF T
  <2> QED
    BY <1>2, <1>3, FS_Subset
<1>5. IsFiniteSet(lapsed)
  BY FS_EmptySet DEF Init
<1> QED
  BY <1>1, <1>4, <1>5 DEF FiniteInv

\* A job adds one directory, or lets one key lapse, at most.
LEMMA JobFinite == ASSUME FiniteInv, NEW j \in Jobs, Job(j) PROVE FiniteInv'
<1> USE DEF FiniteInv, jobvars, cleanvars, nfs
<1>1. CASE UNCHANGED <<dirs, lapsed>>
  BY <1>1
<1>2. CASE Save(j)
  <2>1. lapsed' = lapsed /\ (dirs' = dirs \/ dirs' = dirs \cup {SaveDir(j)})
    BY <1>2 DEF Save
  <2> QED
    BY <2>1, FS_AddElement
<1>3. CASE SkipDelta(j)
  <2>1. dirs' = dirs /\ (lapsed' = lapsed \/ \E x : lapsed' \subseteq lapsed \cup {x})
    BY <1>3 DEF SkipDelta
  <2>2. ASSUME NEW x, lapsed' \subseteq lapsed \cup {x} PROVE IsFiniteSet(lapsed')
    BY <2>2, FS_AddElement, FS_Subset
  <2> QED
    BY <2>1, <2>2
<1>4. Restore(j) \/ List(j) \/ _restore_delta(j) \/ ScopeDone(j) \/ StartCold(j) => UNCHANGED <<dirs, lapsed>>
  BY DEF Restore, List, _restore_delta, ScopeDone, StartCold
<1>5. /\ Compile(j) \/ TestsFail(j) \/ Kill(j) => UNCHANGED <<dirs, lapsed>>
      /\ StartTar(j) \/ FinishTar(j) \/ SaveFails(j) \/ Replace(j) => UNCHANGED <<dirs, lapsed>>
  BY DEF Compile, TestsFail, Kill, StartTar, FinishTar, SaveFails, Replace
<1> QED
  BY <1>1, <1>2, <1>3, <1>4, <1>5 DEF Job

LEMMA FiniteStep == FiniteInv /\ [Next]_vars => FiniteInv'
<1> SUFFICES ASSUME FiniteInv, [Next]_vars PROVE FiniteInv'
  OBVIOUS
<1>1. CASE Night
  <2>1. dirs' \subseteq dirs
    BY <1>1 DEF Night, _sweep_pr_scopes, cmd_cleanup, EnterScope, Rank, Choose, Rmtree, Rmdir,
                RmdirEmpty, LeaveScope, nfs
  <2>2. lapsed' \subseteq lapsed
    BY <1>1 DEF Night, _sweep_pr_scopes, cmd_cleanup, EnterScope, Rank, Choose, Rmtree, Rmdir,
                RmdirEmpty, LeaveScope, cleanvars
  <2> QED
    BY <2>1, <2>2, FS_Subset DEF FiniteInv
<1>2. CASE UNCHANGED vars
  BY <1>2 DEF vars, cleanvars, nfs, FiniteInv
<1> QED
  BY <1>1, <1>2, JobFinite DEF Next, Night

(***************************************************************************)
(* A job takes the last delta of a key only by setting it aside, and then  *)
(* a key that was looked at lapses and another one no longer counts.       *)
(***************************************************************************)
LEMMA JobWarms ==
    ASSUME TypeInv, NEW j \in Jobs, Job(j)
    PROVE  /\ UNCHANGED <<cpc, at, births, stale>>
           /\ dirs \subseteq dirs' /\ warm' \subseteq warm /\ lapsed \subseteq lapsed'
           /\ \A dir : _deltas(dir) # {} =>
                 \/ _deltas(dir)' # {}
                 \/ (Seen(dir) => dir \in lapsed') /\ (dir \notin DOMAIN births => dir \notin warm')
<1> USE DEF jobvars, cleanvars, nfs
<1>1. ASSUME UNCHANGED cleanvars, dirs \subseteq dirs', DOMAIN shelf \subseteq DOMAIN shelf'
      PROVE  /\ UNCHANGED <<cpc, at, births, stale>>
             /\ dirs \subseteq dirs' /\ warm' \subseteq warm /\ lapsed \subseteq lapsed'
             /\ \A dir : _deltas(dir) # {} => _deltas(dir)' # {}
  BY <1>1 DEF _deltas, DirOf
<1>2. CASE Restore(j) \/ List(j) \/ _restore_delta(j) \/ ScopeDone(j) \/ StartCold(j)
  BY <1>1, <1>2 DEF Restore, List, _restore_delta, ScopeDone, StartCold
<1>3. CASE Compile(j) \/ TestsFail(j) \/ Kill(j)
  BY <1>1, <1>3 DEF Compile, TestsFail, Kill
<1>4. CASE Save(j) \/ StartTar(j) \/ FinishTar(j) \/ SaveFails(j)
  BY <1>1, <1>4 DEF Save, StartTar, FinishTar, SaveFails
<1>5. CASE Replace(j)
  BY <1>1, <1>5 DEF Replace, Overlay
<1>6. CASE SkipDelta(j)
  <2>1. UNCHANGED <<cpc, at, births, stale, dirs>>
    BY <1>6 DEF SkipDelta
  <2>2. CASE UNCHANGED <<shelf, warm, lapsed>>
    BY <2>1, <2>2 DEF _deltas, DirOf
  <2>3. ASSUME NEW d \in DOMAIN shelf, shelf' = Minus({d}),
               warm' = warm \ {dir \in {DirOf(d)} : _deltas(dir) = {d} /\ dir \notin DOMAIN births},
               lapsed' = lapsed \cup {dir \in {DirOf(d)} : _deltas(dir) = {d} /\ Seen(dir)},
               NEW dir, _deltas(dir) # {}, _deltas(dir)' = {}
        PROVE  (Seen(dir) => dir \in lapsed') /\ (dir \notin DOMAIN births => dir \notin warm')
    <3>1. DOMAIN shelf' = DOMAIN shelf \ {d}
      BY <2>3 DEF Minus, Restrict
    <3>2. _deltas(dir)' = _deltas(dir) \ {d}
      BY <3>1 DEF _deltas, DirOf
    <3>3. _deltas(dir) = {d}
      BY <2>3, <3>2
    <3>4. dir = DirOf(d)
      BY <3>3 DEF _deltas
    <3> QED
      BY <2>3, <3>3, <3>4
  <2> QED
    BY <1>6, <2>1, <2>2, <2>3 DEF SkipDelta
<1> QED
  BY <1>2, <1>3, <1>4, <1>5, <1>6 DEF Job

(***************************************************************************)
(* A key with deltas is born after zero, one without is not.               *)
(***************************************************************************)
LEMMA Births ==
    ASSUME TypeInv, NEW dir
    PROVE  /\ _key_birth(dir) \in Nat
           /\ _key_birth(dir) > 0 <=> _deltas(dir) # {}
<1>1. Mtimes(dir) \subseteq Nat /\ 0 \notin Mtimes(dir)
  BY DEF TypeInv, Mtimes, _deltas
<1>2. Mtimes(dir) = {} <=> _deltas(dir) = {}
  BY DEF Mtimes
<1>3. CASE Mtimes(dir) = {}
  BY <1>2, <1>3 DEF _key_birth
<1>4. CASE Mtimes(dir) # {}
  <2>1. PICK t \in Mtimes(dir) : \A u \in Mtimes(dir) : t <= u
    <3>1. \A S \in SUBSET Nat : S # {} => \E n \in S : \A m \in S : n <= m
      <4> SUFFICES ASSUME NEW S \in SUBSET Nat, S # {} PROVE \E n \in S : \A m \in S : n <= m
        OBVIOUS
      <4>1. PICK x \in S : \A y \in S : <<y, x>> \notin OpToRel(<, Nat)
        BY NatLessThanWellFounded, WFMin
      <4>2. ASSUME NEW y \in S PROVE x <= y
        <5>1. <<y, x>> \in Nat \X Nat
          OBVIOUS
        <5>2. ~(y < x)
          BY <4>1, <5>1 DEF OpToRel
        <5> QED
          BY <5>2
      <4> QED
        BY <4>2
    <3> QED
      BY <1>1, <1>4, <3>1
  <2>2. _key_birth(dir) \in Mtimes(dir)
    BY <1>4, <2>1 DEF _key_birth
  <2> QED
    BY <1>1, <1>2, <1>4, <2>2
<1> QED
  BY <1>3, <1>4

(***************************************************************************)
(* What the cleanup keeps stays, and is what it should keep.               *)
(***************************************************************************)
LEMMA SparedKept ==
    ASSUME NEW K, Spared(K), warm' \subseteq warm, stale' \subseteq stale, UNCHANGED <<at, births>>,
           \A dir \in K : dir \in Warm(at) \cup lapsed => dir \in Warm(at)' \cup lapsed'
    PROVE  Spared(K)'
<1>1. \A dir : Seen(dir)' = Seen(dir)
  BY DEF Seen
<1> QED
  BY <1>1 DEF Spared, Warm

LEMMA ChooseSpares == ASSUME FiniteInv, RankInv, Choose PROVE EvictInv'
<1> USE DEF jobvars, nfs
<1>1. PICK kept \in SUBSET stale :
          /\ KeyCount(kept)
          /\ \A dir \in kept, old \in stale \ kept : births[dir] >= births[old]
          /\ stale' = stale \ kept
  BY DEF Choose
<1>2. DOMAIN births = stale /\ UNCHANGED <<at, births, warm, lapsed, dirs, shelf>>
  BY DEF Choose
<1>0. PICK K : K = {dir \in kept : births[dir] > 0}
  OBVIOUS
<1>3. IsFiniteSet(K) /\ IsFiniteSet(kept)
  <2>1. K \subseteq dirs /\ kept \subseteq dirs
    BY <1>0 DEF RankInv
  <2> QED
    BY <2>1, FS_Subset DEF FiniteInv
<1>4. K \cap stale' = {}
  BY <1>0, <1>1
<1>5. ASSUME NEW dir \in K PROVE Seen(dir)' /\ dir \in (Warm(at) \cup lapsed)'
  <2>1. dir \in dirs /\ dir.scope = at /\ births[dir] > 0 /\ dir \in DOMAIN births
    BY <1>0, <1>2 DEF RankInv
  <2>2. _deltas(dir) # {} \/ dir \in lapsed
    BY <2>1 DEF RankInv
  <2>3. _deltas(dir)' = _deltas(dir)
    BY <1>2 DEF _deltas, DirOf
  <2>4. dir \in Warm(at)' \/ dir \in lapsed'
    BY <1>2, <2>1, <2>2, <2>3 DEF Warm
  <2> QED
    BY <1>2, <2>1, <2>4 DEF Seen, Warm
<1>6. warm' \subseteq K \/ Cardinality(K) >= Keep
  <2>1. warm \subseteq stale /\ \A dir \in warm : births[dir] > 0
    BY <1>2 DEF RankInv
  <2>2. CASE \E dir \in kept : births[dir] = 0
    <3>1. \A old \in stale' : ~(births[old] > 0)
      BY <1>1, <1>2, <2>2 DEF RankInv
    <3> QED
      BY <1>0, <1>1, <1>2, <2>1, <3>1
  <2>3. CASE \A dir \in kept : births[dir] # 0
    <3>1. K = kept
      BY <1>0, <1>1, <1>2, <2>3 DEF RankInv
    <3>2. CASE kept = stale
      BY <1>2, <2>1, <3>1, <3>2
    <3>3. CASE Cardinality(kept) = Keep
      BY <3>1, <3>3, CacheAssumption
    <3> QED
      BY <1>1, <3>2, <3>3 DEF KeyCount
  <2> QED
    BY <2>2, <2>3
<1>7. Spared(K)'
  BY <1>3, <1>4, <1>5, <1>6 DEF Spared
<1> QED
  BY <1>7 DEF EvictInv

LEMMA RankKept == ASSUME TypeInv, RankInv, Rank PROVE RankInv'
<1> USE DEF jobvars, nfs
<1>1. PICK dir \in stale \ DOMAIN births :
          births' = Overlay([d \in {dir} |-> _key_birth(d)], births)
  BY DEF Rank
<1>2. UNCHANGED <<at, stale, warm, lapsed, dirs, shelf>>
  BY DEF Rank
<1>3. \A d : _deltas(d)' = _deltas(d)
  BY <1>2 DEF _deltas, DirOf
<1>4. /\ DOMAIN births' = DOMAIN births \cup {dir}
      /\ births'[dir] = _key_birth(dir)
      /\ \A d \in DOMAIN births : births'[d] = births[d]
  BY <1>1 DEF Overlay
<1>5. /\ births'[dir] \in Nat
      /\ births'[dir] > 0 => _deltas(dir) # {}
      /\ dir \in warm => births'[dir] > 0
  BY <1>1, <1>4, Births DEF RankInv
<1> QED
  BY <1>2, <1>3, <1>4, <1>5 DEF RankInv

LEMMA CleanStep == TypeInv /\ FiniteInv /\ CleanInv /\ [Next]_vars => CleanInv'
<1> SUFFICES ASSUME TypeInv, FiniteInv, CleanInv, [Next]_vars PROVE CleanInv'
  OBVIOUS
<1> USE DEF jobvars, cleanvars, nfs
<1>1. ASSUME NEW j \in Jobs, Job(j) PROVE CleanInv'
  <2>1. /\ UNCHANGED <<cpc, at, births, stale>>
        /\ dirs \subseteq dirs' /\ warm' \subseteq warm /\ lapsed \subseteq lapsed'
        /\ \A dir : _deltas(dir) # {} =>
              \/ _deltas(dir)' # {}
              \/ (Seen(dir) => dir \in lapsed') /\ (dir \notin DOMAIN births => dir \notin warm')
    BY <1>1, JobWarms
  <2>2. ASSUME RankInv PROVE RankInv'
    <3>1. \A dir \in DOMAIN births : births[dir] > 0 => _deltas(dir)' # {} \/ dir \in lapsed'
      BY <2>1, <2>2 DEF RankInv, Seen
    <3>2. \A dir \in warm' \ DOMAIN births : _deltas(dir)' # {}
      BY <2>1, <2>2 DEF RankInv
    <3> QED
      BY <2>1, <2>2, <3>1, <3>2 DEF RankInv
  <2>3. ASSUME NEW K, Spared(K) PROVE Spared(K)'
    <3>1. ASSUME NEW dir \in K, dir \in Warm(at) \cup lapsed PROVE dir \in Warm(at)' \cup lapsed'
      BY <2>1, <2>3, <3>1 DEF Warm, Spared
    <3> QED
      BY <2>1, <2>3, <3>1, SparedKept
  <2> QED
    BY <2>1, <2>2, <2>3 DEF CleanInv, EvictInv
<1>2. CASE _sweep_pr_scopes
  BY <1>2 DEF _sweep_pr_scopes, CleanInv
<1>3. ASSUME NEW s \in Scopes, EnterScope(s) PROVE CleanInv'
  <2>1. RankInv'
    <3>1. /\ at' = s /\ stale' = {dir \in dirs : dir.scope = s} /\ births' = <<>>
          /\ warm' = {dir \in dirs : dir.scope = s /\ _deltas(dir) # {}}
          /\ UNCHANGED <<dirs, shelf>>
      BY <1>3 DEF EnterScope
    <3>2. DOMAIN births' = {}
      BY <3>1
    <3> QED
      BY <3>1, <3>2 DEF RankInv, _deltas, DirOf
  <2> QED
    BY <1>3, <2>1 DEF EnterScope, CleanInv
<1>4. CASE Rank
  BY <1>4, RankKept DEF Rank, CleanInv
<1>5. CASE Choose
  BY <1>5, ChooseSpares DEF Choose, CleanInv
\* The night takes from no key that is spared.
<1>6. ASSUME NEW K, Spared(K), UNCHANGED <<at, births, warm>>, stale' \subseteq stale,
             \A dir \in K : _deltas(dir)' = _deltas(dir) /\ (dir \in lapsed => dir \in lapsed'),
             \A dir \in dirs \ dirs' : _deltas(dir) = {}
      PROVE  Spared(K)'
  <2>1. ASSUME NEW dir \in K, dir \in Warm(at) \cup lapsed PROVE dir \in Warm(at)' \cup lapsed'
    BY <1>6, <2>1 DEF Warm
  <2> QED
    BY <1>6, <2>1, SparedKept
<1>7. ASSUME NEW dir \in stale, Rmtree(dir) PROVE CleanInv'
  <2>1. PICK K : Spared(K)
    BY <1>7 DEF Rmtree, CleanInv, EvictInv
  <2>2. DOMAIN shelf' = DOMAIN shelf \ _deltas(dir)
    BY <1>7 DEF Rmtree, Minus, Restrict
  <2>3. \A other : other # dir => _deltas(other)' = _deltas(other)
    BY <2>2 DEF _deltas, DirOf
  <2>4. UNCHANGED <<at, births, warm, dirs>> /\ stale' = stale \ {dir} /\ lapsed' = lapsed \ {dir}
    BY <1>7 DEF Rmtree
  <2>5. dir \notin K
    BY <2>1 DEF Spared
  <2>6. Spared(K)'
    BY <1>6, <2>1, <2>3, <2>4, <2>5
  <2> QED
    BY <1>7, <2>6 DEF CleanInv, Rmtree, EvictInv
<1>8. ASSUME EvictInv, UNCHANGED <<at, births, warm, lapsed, stale, shelf>>,
             \A dir \in dirs \ dirs' : ~Occupied(dir)
      PROVE  EvictInv'
  <2>1. PICK K : Spared(K)
    BY <1>8 DEF EvictInv
  <2>2. \A dir : _deltas(dir)' = _deltas(dir)
    BY <1>8 DEF _deltas, DirOf
  <2>3. Spared(K)'
    BY <1>6, <1>8, <2>1, <2>2 DEF Occupied
  <2> QED
    BY <2>3 DEF EvictInv
<1>9. CASE Rmdir
  BY <1>8, <1>9 DEF Rmdir, CleanInv
<1>10. ASSUME NEW dir \in dirs, RmdirEmpty(dir) PROVE CleanInv'
  BY <1>8, <1>10 DEF RmdirEmpty, CleanInv
<1>11. CASE LeaveScope
  BY <1>11 DEF LeaveScope, CleanInv
<1>12. CASE UNCHANGED vars
  <2>1. UNCHANGED <<cpc, at, births, stale, warm, lapsed, dirs, shelf>>
    BY <1>12 DEF vars
  <2>2. \A d : _deltas(d)' = _deltas(d)
    BY <2>1 DEF _deltas, DirOf
  <2>3. EvictInv => EvictInv'
    BY <1>8, <2>1
  <2> QED
    BY <2>1, <2>2, <2>3 DEF CleanInv, RankInv
<1> QED
  BY <1>1, <1>2, <1>3, <1>4, <1>5, <1>7, <1>9, <1>10, <1>11, <1>12 DEF Next, cmd_cleanup

(***************************************************************************)
(* Whatever is saved, first saved or set aside while the cleanup ranks the *)
(* keys of a scope and removes them, it leaves as many with a delta to     *)
(* restore as it keeps, or all there were: but for those a job sets the    *)
(* last delta of aside once the cleanup has seen it (cmd_cleanup).         *)
(***************************************************************************)
THEOREM CleanupSpares == Spec => []CleanupKeepsWarmKeys
<1>1. FiniteInv /\ CleanInv => CleanupKeepsWarmKeys
  BY CleanBound
<1> QED
  BY <1>1, TypeInit, TypeStep, CleanInit, FiniteStep, CleanStep, PTL DEF Spec
=============================================================================
