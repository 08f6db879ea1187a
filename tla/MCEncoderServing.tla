-------------------------- MODULE MCEncoderServing --------------------------
(***************************************************************************)
(* Engines of models shorter and longer than the fast body, and batches of *)
(* up to four prompts.                                                     *)
(***************************************************************************)
EXTENDS EncoderServing

User(len, tokens, seqs, buckets, sizes, mode, method, causal) ==
    [max_model_len |-> len, max_num_batched_tokens |-> tokens, max_num_seqs |-> seqs,
     query_buckets |-> buckets, compile_sizes |-> sizes, mode |-> mode, pool |-> method,
     causal |-> causal, v2 |-> FALSE, model |-> "text", tail |-> "spyre", positions |-> 0]

V2(user) == [user EXCEPT !.v2 = TRUE]
Model(model, user) == [user EXCEPT !.model = model]
Roberta(positions, user) == [user EXCEPT !.positions = positions]
OnHost(user) == [user EXCEPT !.tail = "host"]

MCUsers ==
    {User(16, 16, 3, {}, Unset, "opaque", "CLS", FALSE),
     User(16, 16, 4, {}, Unset, "opaque", "MEAN", FALSE),
     User(16, 16, 4, {}, Unset, "inline", "LAST", FALSE),
     User(16, 16, 3, {}, Unset, "inline", "MEAN", FALSE),
     User(4, 16, 3, {}, Unset, "opaque", "LAST", FALSE),
     User(4, 16, 4, {}, Unset, "inline", "CLS", TRUE),
     User(13, 6, 2, {}, Unset, "inline", "MEAN", TRUE),
     User(2, 9, 3, {}, Unset, "opaque", "MEAN", FALSE),
     User(16, 16, 4, {4}, Unset, "inline", "LAST", FALSE),
     User(16, 16, 2, {4}, Unset, "inline", "MEAN", FALSE),
     User(2, 9, 3, {}, Unset, "opaque", "CLS", FALSE),
     User(16, 16, 3, {}, {8}, "opaque", "CLS", FALSE),
     User(16, 16, 3, {}, {}, "inline", "LAST", FALSE),
     User(8, 16, 3, {}, Unset, "eager", "CLS", TRUE),
     V2(User(16, 16, 4, {}, Unset, "inline", "MEAN", FALSE)),
     V2(User(16, 16, 3, {}, {6, 12}, "opaque", "LAST", FALSE)),
     V2(OnHost(User(4, 16, 3, {}, {}, "inline", "MEAN", FALSE))),
     Model("clip", User(16, 16, 2, {}, Unset, "inline", "LAST", FALSE)),
     Model("clip", OnHost(User(8, 16, 2, {}, Unset, "opaque", "LAST", FALSE))),
     V2(Model("clip", User(4, 8, 2, {}, Unset, "inline", "CLS", FALSE))),
     V2(Model("clip", User(16, 16, 2, {}, Unset, "opaque", "LAST", FALSE))),
     Model("pair", OnHost(Roberta(10, User(16, 16, 2, {}, Unset, "opaque", "CLS", FALSE)))),
     V2(Model("pair", Roberta(18, User(16, 16, 2, {}, Unset, "inline", "CLS", FALSE))))}

\* Lengths on and off the extents 2, 4, 8 and 16; the third and fourth prompt are short.
Lens == {1, 3, 4, 7, 9, 16}
MCBatches ==
    {b \in UNION {[1..n -> Lens] : n \in 1..4} :
        Total(b) <= 16 /\ \A i \in DOMAIN b : i > 2 => b[i] \in {1, 3}}
=============================================================================
