--------------------------- MODULE EncoderTables ---------------------------
(***************************************************************************)
(* Shapes of a pooling engine, as spyre_shape_bucketer derives them from   *)
(* the engine's limits.                                                    *)
(*                                                                         *)
(* A step is padded to a body, a fixed number of rows.  On a body of R     *)
(* rows a batch whose lengths round up to L runs as a rectangle of R \div  *)
(* L lanes if it has no more requests than lanes; any other batch runs     *)
(* ragged, as groups of requests with one extent.  Both the rectangles and *)
(* the groups are declared here, so that warmup can compile all of them.   *)
(*                                                                         *)
(* An engine e is a record of its limits.  Sorted lists are sets.          *)
(***************************************************************************)
EXTENDS Integers, FiniteSets

CONSTANTS
    Stick,      \* ENCODER_SEQ_ALIGNMENT, tokens of one stick
    FastBody,   \* POOLING_FAST_BODY_ROWS
    MaxDoublings \* bound: extents go up to Stick * 2^MaxDoublings

\* A stick is a power of two, as a request's rows and lanes are padded to.
ASSUME TablesAssumption ==
    /\ Stick \in Nat \ {0} /\ \E k \in 1..Stick : Stick = 2^k
    /\ MaxDoublings \in Nat
    /\ FastBody \in {Stick * 2^k : k \in 0..MaxDoublings}

\* compile_sizes that no user gave.
Unset == {0}

LeastOf(S) == CHOOSE m \in S : \A x \in S : m <= x
GreatestOf(S) == CHOOSE m \in S : \A x \in S : x <= m
Lesser(a, b) == IF a <= b THEN a ELSE b
Greater(a, b) == IF a >= b THEN a ELSE b

Extents == {Stick * 2^k : k \in 0..MaxDoublings}

\* A whole number of sticks (and the mutant of AlignUpPow2).
AlignUp(n) == LeastOf({Stick * k : k \in {k \in 1..2^MaxDoublings : n <= Stick * k}})

AlignUpPow2(n) == LeastOf({x \in Extents : n <= x})

FloorPow2(n) == GreatestOf({p \in {2^k : k \in 0..MaxDoublings} : p <= Greater(1, n)})

\* Row and request counts are padded to the next power of two.
CeilPow2(n) == LeastOf({p \in {2^k : k \in 0..MaxDoublings + 4} : n <= p})

\* next_bucket: past every bucket, whole sticks.
NextBucket(n, buckets) ==
    LET fit == {b \in buckets : n <= b} IN
    IF fit = {} THEN AlignUp(n) ELSE LeastOf(fit)

(***************************************************************************)
(* encoder_budget_rows: the most rows a step needs, a whole number of the  *)
(* longest length and never less than one of it.                           *)
(***************************************************************************)
\* Mutant: the cap is taken as it is.
CappedRows(maxLen, tokens, seqs) ==
    Lesser(tokens, Greater(1, seqs) * AlignUpPow2(maxLen))

BudgetRows(maxLen, tokens, seqs) ==
    LET longest == AlignUpPow2(maxLen)
        rows == Lesser(tokens, Greater(1, seqs) * longest) IN
    Greater(longest, (rows \div longest) * longest)

\* encoder_body_budgets: one body, or a body per power of two from FastBody up.
Bodies(e) ==
    LET longest == AlignUpPow2(e.max_model_len)
        rows == BudgetRows(e.max_model_len, e.max_num_batched_tokens, e.max_num_seqs)
        full == IF rows > longest THEN Greater(longest, Lesser(rows, FastBody)) ELSE rows IN
    IF full <= FastBody THEN {full}
    ELSE {x \in Extents : FastBody <= x /\ x < full} \cup {full}

\* _encoder_lengths: the ladder, or the user's query buckets below the limit.
Lengths(e) ==
    LET limit == AlignUpPow2(e.max_model_len) IN
    IF e.query_buckets = {} THEN {x \in Extents : x <= limit}
    ELSE {x \in {AlignUpPow2(v) : v \in e.query_buckets} : x <= limit} \cup {limit}

(***************************************************************************)
(* The shapes of one body.  A length whose fullest batch fits a smaller    *)
(* body never gets here, so it is left out.                                *)
(***************************************************************************)
ReachesBody(e, length, body) ==
    LET below == {r \in Bodies(e) : r < body} IN
    below = {} \/ e.max_num_seqs * length > GreatestOf(below)

Usable(e, body) ==
    {x \in Lengths(e) : x <= body /\ body % x = 0 /\ ReachesBody(e, x, body)}

Rectangles(e) ==
    UNION {{[extent |-> x, width |-> body \div x] : x \in Usable(e, body)} : body \in Bodies(e)}

Groups(e, body) ==
    IF \/ Usable(e, body) = {}
       \/ e.max_num_seqs <= body \div GreatestOf(Usable(e, body))
    THEN {}
    ELSE {g \in [extent : Usable(e, body), width : {2^k : k \in 0..MaxDoublings}] :
             g.width <= FloorPow2(Lesser(e.max_num_seqs, body \div g.extent))}

\* group_width_caps: groups of an extent without one are not batched.
WidthCap(groups, extent) ==
    GreatestOf({1} \cup {g.width : g \in {g \in groups : g.extent = extent}})

\* encoder_shape_tables: derived once from an engine's limits, then looked up.
Tables(e) ==
    [bodies |-> Bodies(e), lengths |-> Lengths(e), rectangles |-> Rectangles(e),
     groups |-> [body \in Bodies(e) |-> Groups(e, body)]]

(***************************************************************************)
(* The platform's defaults for a compiled engine rewrite a user's limits   *)
(* to those of the tables (_apply_pooling_shape_defaults).  compile_sizes  *)
(* stays a user's choice; without one it is the bodies.  The scheduler may *)
(* not send more than the largest of them.  The hook runs in the process   *)
(* that builds the configuration and again in the engine's.                *)
(***************************************************************************)
ShapeDefaults(user) ==
    LET tokens == Lesser(user.max_num_batched_tokens, FastBody)
        full == BudgetRows(user.max_model_len, tokens, user.max_num_seqs)
        limits == [user EXCEPT !.max_num_batched_tokens = full,
                               !.max_num_seqs = Lesser(@, Greater(1, full \div Stick))] IN
    IF user.compile_sizes = Unset THEN [limits EXCEPT !.compile_sizes = Bodies(limits)] ELSE limits

KeepsToSizes(e) ==
    IF e.compile_sizes = {} THEN e
    ELSE [e EXCEPT !.max_num_batched_tokens = GreatestOf(e.compile_sizes)]

Engine(user) ==
    IF user.mode = "eager"
    THEN [user EXCEPT !.compile_sizes = IF @ = Unset THEN {} ELSE @]
    ELSE LET Pass(e) == KeepsToSizes(ShapeDefaults(e)) IN Pass(Pass(user))
=============================================================================
