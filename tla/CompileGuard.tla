---------------------------- MODULE CompileGuard ----------------------------
(***************************************************************************)
(* The process-wide compile guard: threads watch kernels, arm, disarm and  *)
(* reset the guard, open allow_compile blocks, and compile.                *)
(*                                                                         *)
(* Dynamo's side is external: its list of start callbacks, its pending     *)
(* counter (the callbacks run only for a compile that begins with none in  *)
(* flight) and torch._dynamo.reset(), which empties the list unannounced.  *)
(*                                                                         *)
(* A critical section of the guard's lock is one step; what the code reads *)
(* or writes outside the lock is a step of its own.                        *)
(***************************************************************************)
EXTENDS Integers, Sequences, FiniteSets

CONSTANTS
    Threads,
    Kernels,     \* functions Dynamo may trace
    Watchable,   \* those some caller registers
    Labels,
    Names,       \* (co_filename, co_name) pairs
    NameOf,      \* the name of a kernel's code object
    EagerTrampoline,  \* the frame every eager op shares
    NoCode,           \* a frame _traced_code cannot read
    Nothing,          \* None
    MaxNest,     \* bound: graph breaks inside resume frames
    MaxBlocks,   \* bound: allow_compile blocks a thread has open
    MaxReported  \* bound: keys reported between two clears

ASSUME GuardAssumption ==
    /\ Watchable \subseteq Kernels
    /\ NameOf \in [Kernels -> Names]
    /\ MaxNest \in Nat
    /\ MaxBlocks \in Nat /\ MaxReported \in Nat
    /\ Nothing \notin Labels
    /\ EagerTrampoline # NoCode
    /\ \A k \in Kernels, n \in 0..MaxNest :
          [kernel |-> k, nest |-> n] \notin {EagerTrampoline, NoCode}

\* What Dynamo traces: a kernel (nest 0) or a resume frame of it, or neither.
Frames == [kernel : Kernels, nest : 0..MaxNest]
Traced == Frames \cup {EagerTrampoline, NoCode}
NoCompile == [code |-> NoCode, again |-> FALSE]

CompileGuardLevels == {"off", "warn", "error"}

VARIABLES
    watched,          \* _watched: kernel -> label, for the kernels registered
    watched_names,    \* _watched_names
    level,            \* _level
    armed,            \* _armed
    callback,         \* _callback is not None
    reported,         \* _reported
    depth,            \* _suppressed.depth, per thread
    saved,            \* the depths open allow_compile blocks will restore
    pc,               \* where a thread is
    traced,           \* the frame it compiles, and whether its compile id says "again"
    found,            \* the classification of that frame
    start_callbacks,  \* Dynamo: how often the guard's callback is in the list
    lost,             \* history: Dynamo emptied the list since the last arm
    due               \* history: threads whose compile must not go through

registry == <<watched, watched_names>>
guard == <<level, armed, callback, start_callbacks>>
blocks == <<depth, saved>>
guardVars == <<registry, guard, reported, blocks, pc, traced, found, lost, due>>

\* setdefault on a dictionary.
SetDefault(dict, key, value) ==
    [k \in DOMAIN dict \cup {key} |-> IF k \in DOMAIN dict THEN dict[k] ELSE value]
EmptyDict == [k \in {} |-> Nothing]

GuardInit ==
    /\ watched = EmptyDict /\ watched_names = EmptyDict
    /\ level = "off" /\ armed = FALSE /\ callback = FALSE
    /\ reported = {}
    /\ depth = [t \in Threads |-> 0] /\ saved = [t \in Threads |-> <<>>]
    /\ pc = [t \in Threads |-> "idle"]
    /\ traced = [t \in Threads |-> NoCompile] /\ found = [t \in Threads |-> Nothing]
    /\ start_callbacks = 0 /\ lost = FALSE /\ due = {}

-----------------------------------------------------------------------------
(* The registry and the level *)

Watch(k, label) ==
    /\ watched' = SetDefault(watched, k, label)
    /\ watched_names' = SetDefault(watched_names, NameOf[k], label)
    /\ UNCHANGED <<guard, reported, blocks, pc, traced, found, lost, due>>

\* A plausible bug: arm() trusting _armed alone.
ArmedIsRegistered == armed

\* By value, so an armed guard whose registration Dynamo dropped is not registered.
Registered == callback /\ start_callbacks > 0

Arm(l) ==
    /\ l # "off"
    /\ level' = l
    /\ reported' = {}
    /\ IF Registered
       THEN UNCHANGED <<armed, callback, start_callbacks>>
       ELSE armed' = TRUE /\ callback' = TRUE /\ start_callbacks' = start_callbacks + 1
    /\ lost' = FALSE /\ due' = {}
    /\ UNCHANGED <<registry, blocks, pc, traced, found>>

\* Removes one registration, if Dynamo still has it.
Disarmed ==
    /\ level' = "off"
    /\ armed' = FALSE
    /\ callback' = (callback /\ ~armed)
    /\ start_callbacks' = IF armed /\ Registered THEN start_callbacks - 1 ELSE start_callbacks
    /\ due' = {}

Disarm ==
    /\ Disarmed
    /\ UNCHANGED <<registry, reported, blocks, pc, traced, found, lost>>

\* arm(OFF) looks at _armed before it takes the lock.
ArmOff(t) ==
    /\ pc[t] = "idle" /\ armed
    /\ pc' = [pc EXCEPT ![t] = "disarm"]
    /\ UNCHANGED <<registry, guard, reported, blocks, traced, found, lost, due>>

Reset(t) ==
    /\ pc[t] = "idle"
    /\ Disarmed
    /\ pc' = [pc EXCEPT ![t] = "clear"]
    /\ UNCHANGED <<registry, reported, blocks, traced, found, lost>>

DisarmLater(t) ==
    /\ pc[t] = "disarm"
    /\ Disarmed
    /\ pc' = [pc EXCEPT ![t] = "idle"]
    /\ UNCHANGED <<registry, reported, blocks, traced, found, lost>>

ClearRegistry(t) ==
    /\ pc[t] = "clear"
    /\ watched' = EmptyDict /\ watched_names' = EmptyDict
    /\ reported' = {}
    /\ depth' = [depth EXCEPT ![t] = 0]
    /\ pc' = [pc EXCEPT ![t] = "idle"]
    /\ due' = {}
    /\ UNCHANGED <<guard, saved, traced, found, lost>>

ClearReported ==
    /\ reported' = {}
    /\ UNCHANGED <<registry, guard, blocks, pc, traced, found, lost, due>>

-----------------------------------------------------------------------------
(* allow_compile *)

EnterAllowed(t) ==
    /\ pc[t] = "idle" /\ Len(saved[t]) < MaxBlocks
    /\ saved' = [saved EXCEPT ![t] = Append(@, depth[t])]
    /\ depth' = [depth EXCEPT ![t] = @ + 1]
    /\ UNCHANGED <<registry, guard, reported, pc, traced, found, lost, due>>

\* A plausible bug: decrementing the depth found on the way out.
DecrementedDepth(t) == depth[t] - 1

\* The depth the finally clause leaves.
RestoredDepth(t) == saved[t][Len(saved[t])]

LeaveAllowed(t) ==
    /\ pc[t] = "idle" /\ saved[t] # <<>>
    /\ depth' = [depth EXCEPT ![t] = RestoredDepth(t)]
    /\ saved' = [saved EXCEPT ![t] = SubSeq(@, 1, Len(@) - 1)]
    /\ UNCHANGED <<registry, guard, reported, pc, traced, found, lost, due>>

-----------------------------------------------------------------------------
(* A compile *)

Pending == {t \in Threads : pc[t] \in {"started", "classified", "inductor"}}

\* Some caller registered the kernel a frame is, or resumes.
OfWatched(f) == f \in Frames /\ f.kernel \in DOMAIN watched

\* The callback's first test reads only its own thread's depth.
BeginCompile(t, f, again) ==
    /\ pc[t] = "idle" /\ Cardinality(reported) < MaxReported
    /\ traced' = [traced EXCEPT ![t] = [code |-> f, again |-> again]]
    /\ IF Pending = {} /\ start_callbacks > 0 /\ depth[t] = 0
       THEN /\ pc' = [pc EXCEPT ![t] = "started"]
            /\ due' = IF level = "error" /\ OfWatched(f) THEN due \cup {t} ELSE due
       ELSE /\ pc' = [pc EXCEPT ![t] = "inductor"]
            /\ UNCHANGED due
    /\ UNCHANGED <<registry, guard, reported, blocks, found, lost>>

\* A plausible bug: only whole kernels are matched.
NoResumeLabel(f) == Nothing

\* The kernel whose name is left when a resume frame's prefixes are stripped.
ResumeLabel(f) ==
    IF f.nest > 0 /\ NameOf[f.kernel] \in DOMAIN watched_names
    THEN watched_names[NameOf[f.kernel]]
    ELSE Nothing

Label(f) ==
    IF f.nest = 0 /\ f.kernel \in DOMAIN watched THEN watched[f.kernel] ELSE ResumeLabel(f)

Classify(f) ==
    CASE f = EagerTrampoline -> [kind |-> "eager_op", label |-> f]
      [] f = NoCode          -> [kind |-> "unknown", label |-> f]
      [] OTHER -> IF Label(f) # Nothing THEN [kind |-> "watched", label |-> Label(f)]
                  ELSE [kind |-> "unknown", label |-> f]

Classified(t) ==
    /\ pc[t] = "started"
    /\ found' = [found EXCEPT ![t] = Classify(traced[t].code)]
    /\ pc' = [pc EXCEPT ![t] =
                IF Classify(traced[t].code).kind = "eager_op" THEN "inductor" ELSE "classified"]
    /\ UNCHANGED <<registry, guard, reported, blocks, traced, lost, due>>

\* One report per label and is_recompile.
ReportKey(t) == <<found[t].label, traced[t].again>>

\* A plausible bug: frames that cannot be told are fatal too.
FatalUnlessEager(t) == level = "error" /\ found[t].kind # "eager_op"

Fatal(t) == level = "error" /\ found[t].kind = "watched"

\* A raise ends the compile.
Report(t) ==
    /\ pc[t] = "classified"
    /\ reported' = reported \cup {ReportKey(t)}
    /\ pc' = [pc EXCEPT ![t] = IF Fatal(t) THEN "raised" ELSE "inductor"]
    /\ UNCHANGED <<registry, guard, blocks, traced, found, lost, due>>

EndCompile(t) ==
    /\ pc[t] \in {"inductor", "raised"}
    /\ pc' = [pc EXCEPT ![t] = "idle"]
    /\ traced' = [traced EXCEPT ![t] = NoCompile] /\ found' = [found EXCEPT ![t] = Nothing]
    /\ due' = due \ {t}
    /\ UNCHANGED <<registry, guard, reported, blocks, lost>>

\* torch._dynamo.reset(), which waits for compiles in flight.
DynamoReset ==
    /\ Pending = {}
    /\ start_callbacks' = 0
    /\ lost' = TRUE
    /\ UNCHANGED <<registry, level, armed, callback, reported, blocks, pc, traced, found, due>>

GuardNext ==
    \/ \E k \in Watchable, label \in Labels : Watch(k, label)
    \/ \E l \in CompileGuardLevels : Arm(l)
    \/ Disarm \/ ClearReported \/ DynamoReset
    \/ \E t \in Threads :
          \/ ArmOff(t) \/ DisarmLater(t) \/ Reset(t) \/ ClearRegistry(t)
          \/ EnterAllowed(t) \/ LeaveAllowed(t)
          \/ \E f \in Traced, again \in BOOLEAN : BeginCompile(t, f, again)
          \/ Classified(t) \/ Report(t) \/ EndCompile(t)

GuardSpec == GuardInit /\ [][GuardNext]_guardVars

-----------------------------------------------------------------------------
(* Properties *)

Places == {"idle", "disarm", "clear", "started", "classified", "inductor", "raised"}

\* What _armed, _level and _callback say together, whoever moved the guard last: an
\* armed guard has a level that reports and its callback with Dynamo, unless Dynamo
\* dropped it since the last arm; a guard that is off has left nothing registered; and
\* no order of arm, disarm, reset and torch._dynamo.reset registers it twice.
RegisteredWhileArmed ==
    /\ armed <=> callback
    /\ armed <=> level # "off"
    /\ start_callbacks <= 1
    /\ start_callbacks = 1 => armed
    /\ armed /\ ~lost => start_callbacks = 1

\* A thread that has left its last allow_compile block is no longer suppressed, and one
\* whose block was reset inside it does not end below zero, where later blocks would
\* suppress nothing.
SuppressionEnds == \A t \in Threads : saved[t] = <<>> => depth[t] = 0

\* At "error", a compile of a watched kernel or of any resume frame of it that begins
\* alone on a thread that allows none does not reach Inductor, unless the guard or the
\* registry was changed meanwhile.
FatalCompileStops == \A t \in due : pc[t] # "inductor"

FrameOfWatchable(f) == f \in Frames /\ f.kernel \in Watchable

\* _resume_label means to return "the watched label owning code", but a resume frame carries
\* its parent's file and name only: one of a kernel that nobody watches is taken for that of a
\* watched kernel of the same name in the same file, and raises.
NamesakeResumed(f) ==
    f \in Frames /\ f.nest > 0 /\ \E k \in Watchable : NameOf[k] = NameOf[f.kernel]

\* Only a frame of a callable some caller registered raises, or a namesake's resume
\* frame: never an eager op, an unreadable frame, a whole kernel nobody watches or a
\* resume frame of another name, whatever is cleared or re-armed while it is classified.
OnlyWatchedFramesRaise ==
    \A t \in Threads :
        pc[t] = "raised" => FrameOfWatchable(traced[t].code) \/ NamesakeResumed(traced[t].code)
=============================================================================
