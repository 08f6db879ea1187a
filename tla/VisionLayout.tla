--------------------------- MODULE VisionLayout ---------------------------
(***************************************************************************)
(* What a vision encoder call reads and returns: where the patches of the  *)
(* packed images go in a buffer of fixed size, which patches each of them  *)
(* attends to, and which of them an image token is made of.                *)
(*                                                                         *)
(* A patch is <<item, tile, row, column>>; an entry of a buffer is a patch *)
(* and its segment, the column of a one-hot row.  A tower e is a record:   *)
(*   kind   "grid" (Pixtral, Gemma 4: one grid an image, merged k x k) or  *)
(*          "tiles" (Granite 4 Vision: tiles of side x side patches, the   *)
(*          first of them the whole image)                                 *)
(*   merge  k; window and query of the tiles' Q-Former                     *)
(* and an item is its identity and its height and width in image tokens,   *)
(* or in tiles.                                                            *)
(***************************************************************************)
EXTENDS PaddedHeads, SequencesExt

NoPatch == <<>>
Entry(patch, segment) == [patch |-> patch, segment |-> segment]

\* segment_buffer: padding takes the last column, a call's items those before it.
SegmentItems == Stick - 1
Pad == Entry(NoPatch, Stick - 1)

Blank(n) == [p \in 1..n |-> Pad]

(***************************************************************************)
(* Shapes.                                                                 *)
(***************************************************************************)
PatchesPerToken(e) == e.merge * e.merge
TilePatches(e) == e.side * e.side
TokensPerTile(e) == TilePatches(e) \div PatchesPerToken(e)
Tiles(item) == item.h * item.w + 1

Tokens(e, item) ==
    IF e.kind = "grid" THEN item.h * item.w ELSE Tiles(item) * TokensPerTile(e)

PadGroupCount(e) == IF e.kind = "grid" THEN PatchesPerToken(e) ELSE 1

\* math.lcm(STICK, vision_pad_groups, patches_per_token)
PatchMultiple(e) ==
    IF e.kind = "tiles" THEN TilePatches(e)
    ELSE CHOOSE n \in 1..Stick * PatchesPerToken(e) :
            /\ n % Stick = 0 /\ n % PatchesPerToken(e) = 0
            /\ \A m \in 1..n - 1 : m % Stick # 0 \/ m % PatchesPerToken(e) # 0

(***************************************************************************)
(* vision_inputs.                                                          *)
(***************************************************************************)
\* Where the items' tokens start in a call's output, and where the last ends.
Starts(e, items) ==
    LET start[n \in 1..Len(items) + 1] ==
            IF n = 1 THEN 0 ELSE start[n - 1] + Tokens(e, items[n - 1]) IN
    [n \in 1..Len(items) + 1 |-> start[n]] \o <<>>

ItemAt(start, t) == CHOOSE n \in 1..Len(start) - 1 : start[n] <= t /\ t < start[n + 1]

\* One group for each offset in a merge window; a group's patches in the tokens' order.
offset_major(item, k, group, token) ==
    <<item.id, 0, (token \div item.w) * k + (group \div k), (token % item.w) * k + (group % k)>>

GridInputs(e, items) ==
    LET start == Starts(e, items)  total == start[Len(start)] IN
    [p \in 1..total * PatchesPerToken(e) |->
        LET t == (p - 1) % total  n == ItemAt(start, t) IN
        Entry(offset_major(items[n], e.merge, (p - 1) \div total, t - start[n]), n - 1)]

\* Windows in row-major order, each as (offset, query).
window_major_order(e, p) ==
    LET n == e.side \div e.window  queries == e.query * e.query
        w == p \div (e.window * e.window)
        o == (p % (e.window * e.window)) \div queries
        q == p % queries IN
    <<(w \div n) * e.window + (q \div e.query) * e.merge + (o \div e.merge),
      (w % n) * e.window + (q % e.query) * e.merge + (o % e.merge)>>

TileInputs(e, items) ==
    LET start == Starts(e, items) IN
    [p \in 1..start[Len(start)] * PatchesPerToken(e) |->
        LET n == ItemAt(start, (p - 1) \div PatchesPerToken(e))
            tile == ((p - 1) - start[n] * PatchesPerToken(e)) \div TilePatches(e) IN
        Entry(<<items[n].id, tile + 1>> \o window_major_order(e, (p - 1) % TilePatches(e)), 0)]

vision_inputs(e, items) ==
    (IF e.kind = "grid" THEN GridInputs(e, items) ELSE TileInputs(e, items)) \o <<>>

(***************************************************************************)
(* _pad_groups: every group of the source at the head of the buffer's      *)
(* group, and padding after it, whatever the buffer held.                  *)
(***************************************************************************)
Padded(dst, src, groups, rest(_)) ==
    LET size == Len(src) \div groups  width == Len(dst) \div groups IN
    [p \in DOMAIN dst |->
        IF (p - 1) % width < size THEN src[((p - 1) \div width) * size + ((p - 1) % width) + 1]
        ELSE rest(p)] \o <<>>

\* Mutants: what an earlier call left is not erased; padding only at the buffer's tail.
KeepRest(dst, src, groups) == Padded(dst, src, groups, LAMBDA p : dst[p])

_pad_groups(dst, src, groups) == Padded(dst, src, groups, LAMBDA p : Pad)

(***************************************************************************)
(* The encoder.  A grid's patches attend to their own segment; a tile's to *)
(* the tile.  A token is the patches it is made of, in the order of the    *)
(* merge's weights; the window whose other patches a tile's token draws    *)
(* on; and the images and tiles it has seen, with how many patches.        *)
(***************************************************************************)
Source(patch) == IF patch = NoPatch THEN NoPatch ELSE <<patch[1], patch[2]>>
WindowOf(e, patch) ==
    IF patch = NoPatch THEN NoPatch
    ELSE <<patch[1], patch[2], patch[3] \div e.window, patch[4] \div e.window>>

Sight(buffer, places) ==
    [sources |-> {Source(buffer[p].patch) : p \in places}, patches |-> Cardinality(places)]

\* The segments, or the tiles' extents.
Extents(e, buffer) ==
    IF e.kind = "grid"
    THEN {{p \in DOMAIN buffer : buffer[p].segment = s} : s \in 0..Stick - 1}
    ELSE {n * TilePatches(e) + 1..(n + 1) * TilePatches(e) :
             n \in 0..(Len(buffer) \div TilePatches(e)) - 1}

\* What the patches at the places attend to.
Seen(buffer, places, extents) ==
    Sight(buffer, UNION {x \in extents : x \cap places # {}})

\* vision_project: groups over the buffer, or over each window of a tile.
vision_project(e, buffer) ==
    LET groups == PatchesPerToken(e)
        total == Len(buffer) \div groups
        queries == e.query * e.query
        perWindow == e.window * e.window
        extents == Extents(e, buffer)
        place(t, g) == IF e.kind = "grid" THEN (g - 1) * total + t
                       ELSE ((t - 1) \div queries) * perWindow + (g - 1) * queries
                            + ((t - 1) % queries) + 1
        window(t) == IF e.kind = "grid" THEN {}
                     ELSE LET start == ((t - 1) \div queries) * perWindow IN
                          {WindowOf(e, buffer[p].patch) : p \in start + 1..start + perWindow} IN
    [t \in 1..total |->
        [of |-> [g \in 1..groups |-> buffer[place(t, g)].patch],
         window |-> window(t),
         sees |-> Seen(buffer, {place(t, g) : g \in 1..groups}, extents)]]

(***************************************************************************)
(* postprocess_encoder_output: each item's own run of the output, its      *)
(* tiles back in raster order.                                             *)
(***************************************************************************)
unwindow(e, tokens) ==
    LET n == e.side \div e.window  width == n * e.query  perTile == TokensPerTile(e) IN
    [t \in DOMAIN tokens |->
        LET tile == (t - 1) \div perTile
            row == ((t - 1) % perTile) \div width
            col == (t - 1) % width
            window == (row \div e.query) * n + (col \div e.query)
            q == (row % e.query) * e.query + (col % e.query) IN
        tokens[tile * perTile + window * e.query * e.query + q + 1]]

postprocess_encoder_output(e, output, items) ==
    LET start == Starts(e, items) IN
    [n \in DOMAIN items |->
        LET chunk == SubSeq(output, start[n] + 1, start[n + 1]) IN
        IF e.kind = "grid" THEN chunk ELSE unwindow(e, chunk)]

(***************************************************************************)
(* What an item's tokens should be: the merge windows of its own grid in   *)
(* row-major order, encoded with that image's (that tile's) patches alone. *)
(***************************************************************************)
Square(id, tile, row, col, k) ==
    [g \in 1..k * k |-> <<id, tile, row * k + ((g - 1) \div k), col * k + ((g - 1) % k)>>]

OwnTokens(e, item) ==
    LET k == e.merge
        width == IF e.kind = "grid" THEN item.w ELSE e.side \div k
        perTile == IF e.kind = "grid" THEN item.h * item.w ELSE width * width IN
    [t \in 1..Tokens(e, item) |->
        LET tile == IF e.kind = "grid" THEN 0 ELSE ((t - 1) \div perTile) + 1
            row == ((t - 1) % perTile) \div width
            col == ((t - 1) % perTile) % width IN
        [of |-> Square(item.id, tile, row, col, k),
         window |-> IF e.kind = "grid" THEN {}
                    ELSE {<<item.id, tile, (row * k) \div e.window, (col * k) \div e.window>>},
         sees |-> [sources |-> {<<item.id, tile>>}, patches |-> perTile * k * k]]]
=============================================================================
