------------------------------ MODULE AttnStep ------------------------------
(***************************************************************************)
(* What an attention layer promises its caller: asked about a batch of     *)
(* token rows, it returns, in one step, for each row that row's own        *)
(* result, but for rows it has given up from the moment it was asked.      *)
(* A result is named by the row it belongs to.                             *)
(***************************************************************************)
EXTENDS Integers

VARIABLES asked,      \* rows of the batch being attended to, 0 if none
          exposed,    \* those of them that may get anything
          answer      \* row -> the result returned for it, once there is one

vars == <<asked, exposed, answer>>

NoAnswer == <<>>

Init == asked = 0 /\ exposed = {} /\ answer = NoAnswer

Ask ==
    /\ asked = 0 /\ asked' \in Nat \ {0}
    /\ exposed' \subseteq 0..(asked' - 1)
    /\ UNCHANGED answer

Answer ==
    /\ asked # 0 /\ answer = NoAnswer
    /\ DOMAIN answer' = 0..(asked - 1)
    /\ \A row \in 0..(asked - 1) : answer'[row] = row \/ row \in exposed
    /\ UNCHANGED <<asked, exposed>>

Done == answer # NoAnswer /\ asked' = 0 /\ exposed' = {} /\ answer' = NoAnswer

Next == Ask \/ Answer \/ Done

Spec == Init /\ [][Next]_vars
============================================================================
