-------------------------- MODULE MCVisionServing --------------------------
(***************************************************************************)
(* Sticks of 4: a call holds three images.  Gemma 4 merges 2 x 2 and packs *)
(* up to its own largest image; Pixtral merges 2 x 2 or not at all;        *)
(* Granite's tiles are 8 x 8 patches in four windows of four queries.      *)
(***************************************************************************)
EXTENDS VisionServing

Shape(h, w) == [h |-> h, w |-> w]

GemmaLike == [kind |-> "grid", merge |-> 2, side |-> 0, window |-> 0, query |-> 0,
              eager |-> FALSE, own |-> 4, pinpoints |-> {}, users |-> {}, batched |-> 8,
              chunked |-> TRUE, packs |-> TRUE, head |-> 12, heads |-> 1]
PixtralLike == [GemmaLike EXCEPT !.merge = 1, !.own = 12, !.batched = 6, !.packs = FALSE, !.head = 8]
Granite == [GemmaLike EXCEPT !.kind = "tiles", !.side = 8, !.window = 4, !.query = 2,
                             !.own = 52, !.pinpoints = {Shape(1, 1), Shape(1, 2)},
                             !.batched = 80, !.packs = FALSE, !.head = 6, !.heads = 2]

MCEngines == {
    GemmaLike,
    [GemmaLike EXCEPT !.users = {2, 4, 6}, !.head = 8],
    [GemmaLike EXCEPT !.users = {1, 5, 10}, !.batched = 3, !.head = 16],
    [GemmaLike EXCEPT !.users = {2, 3}],
    [GemmaLike EXCEPT !.users = {6, 12}, !.chunked = FALSE],
    [GemmaLike EXCEPT !.eager = TRUE],
    PixtralLike,
    [PixtralLike EXCEPT !.merge = 2, !.own = 6, !.batched = 4, !.head = 4],
    [PixtralLike EXCEPT !.eager = TRUE],
    Granite}

MCPrompts == {
    <<Shape(1, 1)>>, <<Shape(1, 2), Shape(2, 2)>>, <<Shape(2, 3)>>,
    <<Shape(1, 1), Shape(2, 3), Shape(1, 2)>>,
    <<Shape(1, 1), Shape(1, 1), Shape(1, 2), Shape(1, 1)>>}

MCOtherLimits == {5, NoLimit}
=============================================================================
