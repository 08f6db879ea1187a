---------------------------- MODULE MCDecoderStep ----------------------------
(* Three requests on seven pages of three tokens: two fit together only until they grow. *)
(* The first one's prompt takes two steps and its answer ends at max_model_len.        *)
EXTENDS DecoderStep, TLC

CONSTANTS r1, r2, r3

MCArrivals == <<r1, r2, r3>>
MCPrompt == (r1 :> 9) @@ (r2 :> 1) @@ (r3 :> 2)
MCMaxTokens == (r1 :> 9) @@ (r2 :> 3) @@ (r3 :> 2)
=============================================================================
