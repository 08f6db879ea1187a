----------------------------- MODULE NfsUvCache -----------------------------
(***************************************************************************)
(* CI jobs that ship the uv cache to and from the shared NFS shelf.        *)
(*                                                                         *)
(* The shelf has one tar per scope and key.  A job restores into its own   *)
(* local directory, builds, and saves what it has under its key; no job    *)
(* locks anything, so every look at the shelf may be stale when used.      *)
(* A job may be killed anywhere.  One architecture and suffix.             *)
(*                                                                         *)
(* A cache directory or tar is the set of keys it has everything for and   *)
(* the contexts whose builds went into it.                                 *)
(***************************************************************************)
EXTENDS Integers, FiniteSets

CONSTANTS
    Jobs,
    Keys,
    PRs,
    Main,       \* a push to main, and its scope
    Dispatch,   \* any other event that is no pull request
    Contexts,   \* those jobs run in
    Keep        \* --keep

ASSUME ShelfAssumption ==
    /\ Keep \in Nat \ {0}
    /\ Main # Dispatch /\ {Main, Dispatch} \cap PRs = {}
    /\ Contexts \subseteq {Main, Dispatch} \cup PRs

Scopes == {Main} \cup PRs

\* The first scope a job reads; read_scopes lists no other after it but main.
OwnScope(c) == IF c \in PRs THEN c ELSE Main

read_scopes(c) == {OwnScope(c), Main}
write_scope(c) == {c} \ {Dispatch}

Caches   == [keys : SUBSET Keys, by : SUBSET Contexts, whole : BOOLEAN]
NoCache  == [keys |-> {}, by |-> {}, whole |-> TRUE]
Torn(c)  == [c EXCEPT !.whole = FALSE]

VARIABLES
    ctx, key,     \* what a job runs for
    pc,
    local,        \* its UV_CACHE_DIR
    hit,          \* cache-hit
    listing,      \* tars of its last directory listing
    tmp,          \* its temporary file; {} or one tar
    shelf,        \* tars: [scope, key] -> [cache, mtime]
    clock         \* tars finished so far; orders their mtimes

job  == <<ctx, key>>
uvVars == <<job, pc, local, hit, listing, tmp, shelf, clock>>

Names == [scope : Scopes, key : Keys]
Tars(s) == {n \in DOMAIN shelf : n.scope = s}
Present(s, k) == [scope |-> s, key |-> k] \in DOMAIN shelf
Without(n) == [m \in DOMAIN shelf \ {n} |-> shelf[m]]

UvInit ==
    /\ ctx \in [Jobs -> Contexts] /\ key \in [Jobs -> Keys]
    /\ pc = [j \in Jobs |-> "restore"]
    /\ local = [j \in Jobs |-> NoCache] /\ hit = [j \in Jobs |-> FALSE]
    /\ listing = [j \in Jobs |-> {}] /\ tmp = [j \in Jobs |-> {}]
    /\ shelf = [n \in {} |-> NoCache] /\ clock = 0

Goto(j, place) == pc' = [pc EXCEPT ![j] = place]

-----------------------------------------------------------------------------
(* Restore *)

First(j, S) == IF OwnScope(ctx[j]) \in S THEN OwnScope(ctx[j]) ELSE Main

\* An exact tar in any readable scope, own scope first; else the tars of the first scope
\* that has some, of which the newest is wanted.
Choose(j) ==
    LET exact  == {s \in read_scopes(ctx[j]) : Present(s, key[j])}
        filled == {s \in read_scopes(ctx[j]) : Tars(s) # {}}
    IN /\ pc[j] = "restore"
       /\ hit' = [hit EXCEPT ![j] = exact # {}]
       /\ \/ /\ exact # {}
             /\ listing' = [listing EXCEPT ![j] = {[scope |-> First(j, exact), key |-> key[j]]}]
             /\ Goto(j, "extract")
          \/ /\ exact = {} /\ filled # {}
             /\ listing' = [listing EXCEPT ![j] = Tars(First(j, filled))]
             /\ Goto(j, "newest")
          \/ /\ filled = {}
             /\ Goto(j, "build")
             /\ UNCHANGED listing
       /\ UNCHANGED <<job, local, tmp, shelf, clock>>

\* One listed tar that is gone when it is looked at makes the restore start cold.
Newest(j) ==
    /\ pc[j] = "newest"
    /\ IF listing[j] \subseteq DOMAIN shelf
       THEN /\ \E n \in listing[j] :
                  /\ \A m \in listing[j] : shelf[m].mtime <= shelf[n].mtime
                  /\ listing' = [listing EXCEPT ![j] = {n}]
            /\ Goto(j, "extract")
       ELSE Goto(j, "build") /\ listing' = [listing EXCEPT ![j] = {}]
    /\ UNCHANGED <<job, local, hit, tmp, shelf, clock>>

\* The tar is opened once: a rename over it meanwhile leaves the reader its own file.
Extract(j) ==
    /\ pc[j] = "extract"
    /\ \E n \in listing[j] \cap DOMAIN shelf : local' = [local EXCEPT ![j] = shelf[n].cache]
    /\ listing' = [listing EXCEPT ![j] = {}]
    /\ Goto(j, "build")
    /\ UNCHANGED <<job, hit, tmp, shelf, clock>>

\* The tar is gone, or extraction fails part way: what it left is wiped.
ExtractFails(j) ==
    /\ pc[j] = "extract"
    /\ local' = [local EXCEPT ![j] = NoCache]
    /\ hit' = [hit EXCEPT ![j] = FALSE]
    /\ listing' = [listing EXCEPT ![j] = {}]
    /\ Goto(j, "build")
    /\ UNCHANGED <<job, tmp, shelf, clock>>

-----------------------------------------------------------------------------
(* The job itself: uv adds what its lockfile needs and the cache lacks *)

Filled(cache, j) ==
    IF key[j] \in cache.keys THEN cache
    ELSE [cache EXCEPT !.keys = @ \cup {key[j]}, !.by = @ \cup {ctx[j]}]

Build(j) ==
    /\ pc[j] = "build"
    /\ local' = [local EXCEPT ![j] = Filled(local[j], j)]
    /\ Goto(j, "sweep")
    /\ UNCHANGED <<job, hit, listing, tmp, shelf, clock>>

\* A plausible bug: the save runs after a failed build too.
SavedAnyway(j) ==
    /\ pc[j] = "build"
    /\ local' = [local EXCEPT ![j] = Torn(@)]
    /\ Goto(j, "sweep")
    /\ UNCHANGED <<job, hit, listing, tmp, shelf, clock>>

\* The save is a post step of jobs that succeed.
BuildFails(j) ==
    /\ pc[j] = "build"
    /\ local' = [local EXCEPT ![j] = Torn(@)]
    /\ Goto(j, "done")
    /\ UNCHANGED <<job, hit, listing, tmp, shelf, clock>>

-----------------------------------------------------------------------------
(* Save *)

\* Any job evicts pull-request tars past their time, whichever those are.
Sweep(j) ==
    /\ pc[j] = "sweep"
    /\ \E n \in DOMAIN shelf : n.scope \in PRs /\ shelf' = Without(n)
    /\ UNCHANGED <<job, pc, local, hit, listing, tmp, clock>>

Check(j) ==
    /\ pc[j] = "sweep"
    /\ \/ write_scope(ctx[j]) = {} /\ Goto(j, "done")
       \/ /\ write_scope(ctx[j]) # {}
          /\ IF \E s \in read_scopes(ctx[j]) : Present(s, key[j])
             THEN Goto(j, "gc") ELSE Goto(j, "tar")
    /\ UNCHANGED <<job, local, hit, listing, tmp, shelf, clock>>

\* A plausible bug: the tar goes to the scope every job reads.
target_in_main(j) == [scope |-> Main, key |-> key[j]]

target(j) == [scope |-> ctx[j], key |-> key[j]]

Renamed(tar, n) ==
    [m \in DOMAIN shelf \cup {n} |-> IF m = n THEN tar ELSE shelf[m]]

\* A plausible bug: the tar is written under its final name.
StartTarInPlace(j) ==
    /\ pc[j] = "tar"
    /\ shelf' = Renamed([cache |-> Torn(local[j]), mtime |-> clock], target(j))
    /\ Goto(j, "writing")
    /\ UNCHANGED <<job, local, hit, listing, tmp, clock>>

StartTar(j) ==
    /\ pc[j] = "tar"
    /\ tmp' = [tmp EXCEPT ![j] = {[cache |-> Torn(local[j]), mtime |-> clock]}]
    /\ Goto(j, "writing")
    /\ UNCHANGED <<job, local, hit, listing, shelf, clock>>

FinishTar(j) ==
    /\ pc[j] = "writing"
    /\ tmp' = [tmp EXCEPT ![j] = {[cache |-> local[j], mtime |-> clock]}]
    /\ clock' = clock + 1
    /\ Goto(j, "recheck")
    /\ UNCHANGED <<job, local, hit, listing, shelf>>

\* tar fails; the finally clause removes what it wrote and nothing is collected.
TarFails(j) ==
    /\ pc[j] = "writing"
    /\ tmp' = [tmp EXCEPT ![j] = {}]
    /\ Goto(j, "failed")
    /\ UNCHANGED <<job, local, hit, listing, shelf, clock>>

\* The re-check looks at the scope to be written only.
Recheck(j) ==
    /\ pc[j] = "recheck"
    /\ IF Present(ctx[j], key[j])
       THEN Goto(j, "gc") /\ tmp' = [tmp EXCEPT ![j] = {}]
       ELSE Goto(j, "replace") /\ UNCHANGED tmp
    /\ UNCHANGED <<job, local, hit, listing, shelf, clock>>

\* A rename within the directory; the mtime is when tar wrote the file.
Replace(j) ==
    /\ pc[j] = "replace"
    /\ \E tar \in tmp[j] : shelf' = Renamed(tar, target(j))
    /\ tmp' = [tmp EXCEPT ![j] = {}]
    /\ Goto(j, "stat")
    /\ UNCHANGED <<job, local, hit, listing, clock>>

\* The size for the log; the tar may be another job's garbage by now.
Stat(j) ==
    /\ pc[j] = "stat"
    /\ Goto(j, IF target(j) \in DOMAIN shelf THEN "gc" ELSE "failed")
    /\ UNCHANGED <<job, local, hit, listing, tmp, shelf, clock>>

List(j) ==
    /\ pc[j] = "gc"
    /\ listing' = [listing EXCEPT ![j] = Tars(ctx[j])]
    /\ Goto(j, "collect")
    /\ UNCHANGED <<job, local, hit, tmp, shelf, clock>>

Newer(n, names) == {m \in names : shelf[m].mtime > shelf[n].mtime}

\* All but the newest Keep of those listed, and never the job's own.
Doomed(j) == {n \in listing[j] : Cardinality(Newer(n, listing[j])) >= Keep} \ {target(j)}

\* A listed tar that is gone when it is looked at ends the collection.
Collect(j) ==
    /\ pc[j] = "collect"
    /\ IF listing[j] \subseteq DOMAIN shelf
       THEN listing' = [listing EXCEPT ![j] = Doomed(j)] /\ Goto(j, "unlink")
       ELSE listing' = [listing EXCEPT ![j] = {}] /\ Goto(j, "failed")
    /\ UNCHANGED <<job, local, hit, tmp, shelf, clock>>

\* By name; one that is gone already is passed over.
Unlink(j) ==
    /\ pc[j] = "unlink"
    /\ \/ /\ \E n \in listing[j] :
                listing' = [listing EXCEPT ![j] = @ \ {n}] /\ shelf' = Without(n)
          /\ UNCHANGED pc
       \/ /\ listing[j] = {}
          /\ Goto(j, "swept")
          /\ UNCHANGED <<listing, shelf>>
    /\ UNCHANGED <<job, local, hit, tmp, clock>>

Ended == {"done", "swept", "failed", "killed"}

\* The runner is cancelled; a temporary file stays behind.
Kill(j) ==
    /\ pc[j] \notin Ended
    /\ Goto(j, "killed")
    /\ UNCHANGED <<job, local, hit, listing, tmp, shelf, clock>>

UvNext == \E j \in Jobs :
    \/ Choose(j) \/ Newest(j) \/ Extract(j) \/ ExtractFails(j)
    \/ Build(j) \/ BuildFails(j)
    \/ Sweep(j) \/ Check(j) \/ StartTar(j) \/ FinishTar(j) \/ TarFails(j)
    \/ Recheck(j) \/ Replace(j) \/ Stat(j)
    \/ List(j) \/ Collect(j) \/ Unlink(j)
    \/ Kill(j)

UvSpec == UvInit /\ [][UvNext]_uvVars

-----------------------------------------------------------------------------
(* Properties *)

Places == {"restore", "newest", "extract", "build", "sweep", "tar", "writing", "recheck",
           "replace", "stat", "gc", "collect", "unlink"} \cup Ended

TarFiles == [cache : Caches, mtime : Nat]

\* A job that was told cache-hit has everything its lockfile needs, and no job builds on
\* half a cache: whatever evictions, saves and failures fell between its look at the
\* shelf and its extraction.
HitIsComplete ==
    \A j \in Jobs : pc[j] = "build" =>
        local[j].whole /\ (hit[j] => key[j] \in local[j].keys)

\* Every tar a job can find is whole and serves the key it is named for, however its
\* writer was interrupted and whoever else wrote the same key.
TarServesItsKey ==
    \A n \in DOMAIN shelf : shelf[n].cache.whole /\ n.key \in shelf[n].cache.keys

\* What a pull request built stays in its own scope: it reaches neither main nor another
\* pull request, through any chain of restores and saves.
PRsStayApart == \A n \in DOMAIN shelf : shelf[n].cache.by \subseteq {n.scope, Main}
=============================================================================
