-------------------------- MODULE NfsCompileCache --------------------------
(***************************************************************************)
(* CI jobs that share compiled kernels as deltas on the NFS mount, and the *)
(* nightly cleanup that evicts keys behind their backs.                    *)
(*                                                                         *)
(* A job restores every delta under its key from the scopes it reads,      *)
(* compiles what it lacks and ships that as one delta of its own.  Nobody  *)
(* locks anything: the cleanup removes files and directories of jobs that  *)
(* are reading or writing them, and any job may be killed anywhere.        *)
(*                                                                         *)
(* A delta is known by the job that writes it; its content is a function   *)
(* from the graphs it has kernels of to who compiled them.  One            *)
(* architecture.                                                           *)
(***************************************************************************)
EXTENDS Integers, FiniteSets, Sequences, Functions

CONSTANTS
    Jobs, Keys, Graphs,
    Past,       \* jobs that have ended before, each with a delta in place
    PastKeys,   \* lockfiles those ran on
    PRs,
    Main,       \* a push to main, and its scope
    Queue,      \* the merge queue in front of main
    Dispatch,   \* any other event
    Contexts,   \* those jobs run in
    Keep        \* --keep-keys

ASSUME CacheAssumption ==
    /\ Keep \in Nat \ {0}
    /\ Cardinality({Main, Queue, Dispatch}) = 3 /\ {Main, Queue, Dispatch} \cap PRs = {}
    /\ Past \subseteq Jobs /\ IsFiniteSet(Past)
    /\ Contexts \subseteq {Main, Queue, Dispatch} \cup PRs

Scopes == {Main} \cup PRs

read_scopes(c) == IF c \in PRs THEN <<c, Main>> ELSE <<Main>>

\* {} in a read-only context.
_write_scope(c) == IF c = Queue THEN {Main} ELSE {c} \ {Dispatch}

VARIABLES
    ctx, key,     \* what a job runs for
    pc,
    scopes,       \* those its restore has not come to
    listing,      \* deltas it has listed and not yet read
    local,        \* its TORCHINDUCTOR_CACHE_DIR
    manifest,     \* graphs that were there after the restore
    tmp,          \* the mtime of its temporary tar, in the key's directory; or {}
    dirs,         \* key directories: [scope, key]
    shelf,        \* deltas in place: [scope, key, by] -> [files, mtime]
    bad,          \* those set aside, still in their directory
    clock,        \* tars finished so far; orders their mtimes
    cpc, at,      \* the cleanup: its place, and the scope it is in
    todo,         \* scopes it has still to visit this night
    births,       \* age of each listed key
    stale,        \* keys it is to remove
    doomed,       \* files of the tree it is removing
    due,          \* history: deltas a restore must not miss
    warm,         \* history: keys that had a delta when the cleanup came to their scope,
                  \* unless a job set the last one aside before they were looked at
    lapsed        \* history: keys it saw a delta of, and a job has set the last one aside since

jobvars   == <<ctx, key, pc, scopes, listing, local, manifest, due>>
cleanvars == <<cpc, at, todo, births, stale, doomed, warm, lapsed>>
nfs       == <<tmp, dirs, shelf, bad, clock>>
vars      == <<jobvars, cleanvars, nfs>>

Origin(j) == [ctx |-> ctx[j], key |-> key[j]]

\* f, and g where f has nothing.
Overlay(f, g) == [x \in DOMAIN f \cup DOMAIN g |-> IF x \in DOMAIN f THEN f[x] ELSE g[x]]

Goto(j, place) == pc' = [pc EXCEPT ![j] = place]

KeyDir(s, k) == [scope |-> s, key |-> k]
DirOf(d)     == KeyDir(d.scope, d.key)
_deltas(dir) == {d \in DOMAIN shelf : DirOf(d) = dir}
Minus(D)     == Restrict(shelf, DOMAIN shelf \ D)

\* The directory of a save; jobs in read-only contexts have none.
SaveDir(j) == KeyDir(CHOOSE s \in _write_scope(ctx[j]) : TRUE, key[j])
Delta(j)   == [scope |-> SaveDir(j).scope, key |-> key[j], by |-> j]
Temps(dir) == {j \in Jobs : tmp[j] # {} /\ SaveDir(j) = dir}
Occupied(dir) == _deltas(dir) # {} \/ Temps(dir) # {} \/ \E d \in bad : DirOf(d) = dir

Init ==
    /\ \E c \in [Jobs \ Past -> Contexts] : ctx = [j \in Jobs |-> IF j \in Past THEN Main ELSE c[j]]
    /\ key \in [Jobs -> Keys] /\ \A j \in Past : key[j] \in PastKeys
    /\ pc = [j \in Jobs |-> IF j \in Past THEN "done" ELSE "restore"]
    /\ scopes = [j \in Jobs |-> <<>>] /\ listing = [j \in Jobs |-> {}]
    /\ local = [j \in Jobs |-> <<>>] /\ manifest = [j \in Jobs |-> {}]
    /\ tmp = [j \in Jobs |-> {}] /\ bad = {} /\ clock = 1
    /\ shelf = [d \in {[scope |-> Main, key |-> key[j], by |-> j] : j \in Past} |->
                   [files |-> [g \in {CHOOSE g \in Graphs : TRUE} |-> Origin(d.by)], mtime |-> 0]]
    /\ dirs = {DirOf(d) : d \in DOMAIN shelf}
    /\ cpc = "idle" /\ at = Main /\ todo = {} /\ births = <<>> /\ stale = {} /\ doomed = {}
    /\ due = [j \in Jobs |-> {}] /\ warm = {} /\ lapsed = {}

-----------------------------------------------------------------------------
(* Restore *)

\* _reset_dir, then the scopes in order.
Restore(j) ==
    /\ pc[j] = "restore"
    /\ scopes' = [scopes EXCEPT ![j] = read_scopes(ctx[j])]
    /\ due' = [due EXCEPT ![j] =
                  {d \in DOMAIN shelf : d.key = key[j] /\ d.scope \in Range(read_scopes(ctx[j]))}]
    /\ Goto(j, "list")
    /\ UNCHANGED <<ctx, key, listing, local, manifest, cleanvars, nfs>>

\* A plausible bug: only the first scope is read.
ListFirst(j) ==
    /\ pc[j] = "list"
    /\ scopes[j] # <<>>
    /\ listing' = [listing EXCEPT ![j] = _deltas(KeyDir(Head(scopes[j]), key[j]))]
    /\ scopes' = [scopes EXCEPT ![j] = <<>>]
    /\ Goto(j, "extract")
    /\ UNCHANGED <<ctx, key, local, manifest, due, cleanvars, nfs>>

List(j) ==
    /\ pc[j] = "list"
    /\ scopes[j] # <<>>
    /\ listing' = [listing EXCEPT ![j] = _deltas(KeyDir(Head(scopes[j]), key[j]))]
    /\ scopes' = [scopes EXCEPT ![j] = Tail(@)]
    /\ Goto(j, "extract")
    /\ UNCHANGED <<ctx, key, local, manifest, due, cleanvars, nfs>>

\* Extracted into scratch first, then moved over what is there.
_restore_delta(j) ==
    /\ pc[j] = "extract"
    /\ \E d \in listing[j] \cap DOMAIN shelf :
          /\ local' = [local EXCEPT ![j] = Overlay(shelf[d].files, @)]
          /\ listing' = [listing EXCEPT ![j] = @ \ {d}]
    /\ UNCHANGED <<ctx, key, pc, scopes, manifest, due, cleanvars, nfs>>

\* The cleanup has looked at a key, and found a delta.
Seen(dir) == dir \in DOMAIN births /\ births[dir] > 0

\* It is gone, or cannot be extracted, for whatever reason: set aside for all, if it is there
\* and can be renamed, and the restore goes on.
SkipDelta(j) ==
    /\ pc[j] = "extract"
    /\ \E d \in listing[j] :
          /\ listing' = [listing EXCEPT ![j] = @ \ {d}]
          /\ due' = [due EXCEPT ![j] = @ \ {d}]
          /\ \/ /\ d \in DOMAIN shelf
                /\ shelf' = Minus({d}) /\ bad' = bad \cup {d}
                /\ warm' = warm \ {dir \in {DirOf(d)} : _deltas(dir) = {d} /\ dir \notin DOMAIN births}
                /\ lapsed' = lapsed \cup {dir \in {DirOf(d)} : _deltas(dir) = {d} /\ Seen(dir)}
             \/ UNCHANGED <<shelf, bad, warm, lapsed>>
    /\ UNCHANGED <<ctx, key, pc, scopes, local, manifest, tmp, dirs, clock,
                   cpc, at, todo, births, stale, doomed>>

\* Every listed delta was tried; the manifest is written after the last scope.
ScopeDone(j) ==
    /\ pc[j] = "extract" /\ listing[j] = {}
    /\ IF scopes[j] # <<>>
       THEN Goto(j, "list") /\ UNCHANGED manifest
       ELSE Goto(j, "compile") /\ manifest' = [manifest EXCEPT ![j] = DOMAIN local[j]]
    /\ UNCHANGED <<ctx, key, scopes, listing, local, due, cleanvars, nfs>>

\* Any other OSError; what was merged so far is dropped.
StartCold(j) ==
    /\ pc[j] \in {"list", "extract"}
    /\ local' = [local EXCEPT ![j] = <<>>] /\ manifest' = [manifest EXCEPT ![j] = {}]
    /\ listing' = [listing EXCEPT ![j] = {}] /\ scopes' = [scopes EXCEPT ![j] = <<>>]
    /\ due' = [due EXCEPT ![j] = {}]
    /\ Goto(j, "compile")
    /\ UNCHANGED <<ctx, key, cleanvars, nfs>>

-----------------------------------------------------------------------------
(* The job itself, and its save *)

\* The tests compile what they need and the cache lacks.
Compile(j) ==
    /\ pc[j] = "compile"
    /\ \E needs \in SUBSET Graphs :
          local' = [local EXCEPT ![j] = Overlay(@, [g \in needs |-> Origin(j)])]
    /\ Goto(j, "save")
    /\ UNCHANGED <<ctx, key, scopes, listing, manifest, due, cleanvars, nfs>>

\* Only green legs save.
TestsFail(j) ==
    /\ pc[j] = "compile"
    /\ Goto(j, "done")
    /\ UNCHANGED <<ctx, key, scopes, listing, local, manifest, due, cleanvars, nfs>>

\* A plausible bug: everything in the directory is shipped.
Everything(j) == DOMAIN local[j]

New(j) == DOMAIN local[j] \ manifest[j]

Save(j) ==
    /\ pc[j] = "save"
    /\ IF _write_scope(ctx[j]) = {} \/ New(j) = {}
       THEN Goto(j, "done") /\ UNCHANGED dirs
       ELSE Goto(j, "tar") /\ dirs' = dirs \cup {SaveDir(j)}
    /\ UNCHANGED <<ctx, key, scopes, listing, local, manifest, due, cleanvars,
                   tmp, shelf, bad, clock>>

\* The listing and the temporary tar; the directory may have been removed since.
StartTar(j) ==
    /\ pc[j] = "tar"
    /\ SaveDir(j) \in dirs
    /\ tmp' = [tmp EXCEPT ![j] = {clock}]
    /\ Goto(j, "writing")
    /\ UNCHANGED <<ctx, key, scopes, listing, local, manifest, due, cleanvars,
                   dirs, shelf, bad, clock>>

FinishTar(j) ==
    /\ pc[j] = "writing" /\ tmp[j] # {}
    /\ tmp' = [tmp EXCEPT ![j] = {clock}] /\ clock' = clock + 1
    /\ Goto(j, "replace")
    /\ UNCHANGED <<ctx, key, scopes, listing, local, manifest, due, cleanvars, dirs, shelf, bad>>

Replace(j) ==
    /\ pc[j] = "replace"
    /\ \E mtime \in tmp[j] :
          shelf' = Overlay([d \in {Delta(j)} |-> [files |-> Restrict(local[j], New(j)),
                                                 mtime |-> mtime]], shelf)
    /\ tmp' = [tmp EXCEPT ![j] = {}]
    /\ Goto(j, "done")
    /\ UNCHANGED <<ctx, key, scopes, listing, local, manifest, due, cleanvars, dirs, bad, clock>>

\* tar fails, or directory or temporary file are gone.  The finally clause tidies up.
SaveFails(j) ==
    /\ pc[j] \in {"tar", "writing", "replace"}
    /\ tmp' = [tmp EXCEPT ![j] = {}]
    /\ Goto(j, "done")
    /\ UNCHANGED <<ctx, key, scopes, listing, local, manifest, due, cleanvars,
                   dirs, shelf, bad, clock>>

\* Cancelled: whatever is on the mount stays.
Kill(j) ==
    /\ pc[j] # "done"
    /\ Goto(j, "done")
    /\ UNCHANGED <<ctx, key, scopes, listing, local, manifest, due, cleanvars, nfs>>

Job(j) ==
    \/ Restore(j) \/ List(j) \/ _restore_delta(j) \/ SkipDelta(j) \/ ScopeDone(j) \/ StartCold(j)
    \/ Compile(j) \/ TestsFail(j)
    \/ Save(j) \/ StartTar(j) \/ FinishTar(j) \/ Replace(j) \/ SaveFails(j)
    \/ Kill(j)

-----------------------------------------------------------------------------
(* The nightly cleanup; one at a time *)

\* Pull-request deltas past their time, whichever those are.
_sweep_pr_scopes ==
    /\ cpc = "idle" /\ todo = {}
    /\ \E d \in DOMAIN shelf : d.scope \in PRs /\ shelf' = Minus({d})
    /\ UNCHANGED <<jobvars, cleanvars, tmp, dirs, bad, clock>>

\* A plausible bug: only keys that have a delta are listed.
EnterScopeWarm(s) ==
    /\ cpc = "idle"
    /\ s \in (IF todo = {} THEN Scopes ELSE todo)
    /\ at' = s /\ todo' = (IF todo = {} THEN Scopes ELSE todo) \ {s}
    /\ stale' = {dir \in dirs : dir.scope = s /\ _deltas(dir) # {}}
    /\ births' = <<>> /\ doomed' = {} /\ warm' = stale' /\ lapsed' = {}
    /\ cpc' = "rank"
    /\ UNCHANGED <<jobvars, nfs>>

\* It comes to a scope and lists its keys; each is looked at in turn.
EnterScope(s) ==
    /\ cpc = "idle"
    /\ s \in (IF todo = {} THEN Scopes ELSE todo)
    /\ at' = s /\ todo' = (IF todo = {} THEN Scopes ELSE todo) \ {s}
    /\ stale' = {dir \in dirs : dir.scope = s} /\ births' = <<>> /\ doomed' = {}
    /\ warm' = {dir \in dirs : dir.scope = s /\ _deltas(dir) # {}} /\ lapsed' = {}
    /\ cpc' = "rank"
    /\ UNCHANGED <<jobvars, nfs>>

Mtimes(dir) == {shelf[d].mtime + 1 : d \in _deltas(dir)}

\* A plausible bug: a key without a delta counts as the newest.
NewestIfEmpty(dir) ==
    IF Mtimes(dir) = {} THEN clock + 1
    ELSE CHOOSE t \in Mtimes(dir) : \A u \in Mtimes(dir) : t <= u

\* Of its first delta; zero if it has none.
_key_birth(dir) ==
    IF Mtimes(dir) = {} THEN 0 ELSE CHOOSE t \in Mtimes(dir) : \A u \in Mtimes(dir) : t <= u

Rank ==
    /\ cpc = "rank"
    /\ \E dir \in stale \ DOMAIN births : births' = Overlay([d \in {dir} |-> _key_birth(d)], births)
    /\ UNCHANGED <<jobvars, cpc, at, todo, stale, doomed, warm, lapsed, nfs>>

KeyCount(S) == Cardinality(S) = Keep \/ (Cardinality(S) < Keep /\ S = stale)

\* keys[keep:] of the keys by age; equal ages in any order.
Choose ==
    /\ cpc = "rank" /\ DOMAIN births = stale
    /\ \E kept \in SUBSET stale :
          /\ KeyCount(kept)
          /\ \A dir \in kept, old \in stale \ kept : births[dir] >= births[old]
          /\ stale' = stale \ kept
    /\ cpc' = "evict"
    /\ UNCHANGED <<jobvars, at, todo, births, doomed, warm, lapsed, nfs>>

\* shutil.rmtree lists a directory, unlinks what it listed, then tries to remove it.
Rmtree(dir) ==
    /\ cpc = "evict" /\ dir \in stale
    /\ stale' = stale \ {dir}
    /\ doomed' = {dir} /\ lapsed' = lapsed \ {dir}
    /\ shelf' = Minus(_deltas(dir)) /\ bad' = {d \in bad : DirOf(d) # dir}
    /\ tmp' = [j \in Jobs |-> IF j \in Temps(dir) THEN {} ELSE tmp[j]]
    /\ cpc' = "rmdir"
    /\ UNCHANGED <<jobvars, at, todo, births, warm, dirs, clock>>

Rmdir ==
    /\ cpc = "rmdir"
    /\ dirs' = dirs \ {dir \in doomed : ~Occupied(dir)}
    /\ doomed' = {}
    /\ cpc' = "evict"
    /\ UNCHANGED <<jobvars, at, todo, births, stale, warm, lapsed, tmp, shelf, bad, clock>>

\* Empty directories go; any one may also be kept by a failure that ends the loop.
RmdirEmpty(dir) ==
    /\ cpc = "evict" /\ stale = {}
    /\ dir \in dirs /\ dir.scope = at /\ ~Occupied(dir)
    /\ dirs' = dirs \ {dir}
    /\ UNCHANGED <<jobvars, cleanvars, tmp, shelf, bad, clock>>

LeaveScope ==
    /\ cpc = "evict" /\ stale = {}
    /\ cpc' = "idle" /\ births' = <<>> /\ warm' = {} /\ lapsed' = {}
    /\ UNCHANGED <<jobvars, at, todo, stale, doomed, nfs>>

cmd_cleanup ==
    \/ \E s \in Scopes : EnterScope(s)
    \/ Rank \/ Choose
    \/ \E dir \in stale : Rmtree(dir)
    \/ Rmdir
    \/ \E dir \in dirs : RmdirEmpty(dir)
    \/ LeaveScope

Next == (\E j \in Jobs : Job(j)) \/ _sweep_pr_scopes \/ cmd_cleanup

\* The cleanup runs every night and goes on once it runs; a job may stop anywhere.
Spec == Init /\ [][Next]_vars /\ WF_vars(cmd_cleanup)

-----------------------------------------------------------------------------
(* Properties *)

\* "restore extracts every delta under the key": a job that has not started cold has the
\* kernels of each delta that was there when it began and is there now, in every scope it
\* reads, whichever others it had to skip and whatever was evicted under its hands.
RestoresTheUnion ==
    \A j \in Jobs : pc[j] = "compile" =>
        \A d \in due[j] \cap DOMAIN shelf : DOMAIN shelf[d].files \subseteq DOMAIN local[j]

\* "each job writes only the files it compiled": nothing restored is shipped again, so no
\* kernel compiled by one pull request, or against another lockfile, travels further.
ShipsItsOwn ==
    \A d \in DOMAIN shelf : Range(shelf[d].files) \subseteq {Origin(d.by)}

Warm(s) == {dir \in dirs : dir.scope = s /\ _deltas(dir) # {}}

\* "keys to retain per scope": whatever is saved, first saved or set aside while the cleanup
\* ranks the keys of a scope and removes them, it leaves as many with a delta to restore as it
\* keeps, or as there were.  A key counts as left if a job set its last delta aside after the
\* cleanup saw it: it is kept for that delta, and an older one goes in vain.
CleanupKeepsWarmKeys ==
    cpc # "idle" =>
        LET left == Cardinality(Warm(at) \cup lapsed)
        IN  left >= Keep \/ left >= Cardinality(warm)

\* Once jobs stop saving, each scope comes down to the keys to keep for good: directories of
\* killed saves and of saves that lost their directory go, too.
EventuallyBounded ==
    \A s \in Scopes : <>[](Cardinality({dir \in dirs : dir.scope = s}) <= Keep)
=============================================================================
