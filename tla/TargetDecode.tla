----------------------------- MODULE TargetDecode -----------------------------
(***************************************************************************)
(* What a decoder promises its clients: a request's answer is the          *)
(* target model's own greedy continuation of its prompt, token after       *)
(* token, up to its limit.  A token is TRUE when it is that continuation's *)
(* token at its place.                                                     *)
(***************************************************************************)
EXTENDS Naturals, Sequences

CONSTANTS Requests, Limit

VARIABLE answer

Init == answer = [r \in Requests |-> <<>>]

\* One engine step answers some requests with a few tokens each.
Answer ==
    /\ answer' # answer
    /\ \A r \in Requests : \E n \in 0..(Limit[r] - Len(answer[r])) :
          answer'[r] = answer[r] \o [i \in 1..n |-> TRUE]
    /\ DOMAIN answer' = Requests

Spec == Init /\ [][Answer]_answer
=============================================================================
