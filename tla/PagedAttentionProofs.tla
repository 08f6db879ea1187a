------------------------ MODULE PagedAttentionProofs ------------------------
(***************************************************************************)
(* The paged cache holds its tokens, and every row of a step attends its   *)
(* own context, whatever the requests, the pool, the layout, the layer and *)
(* the scheduler's choices.                                                *)
(*                                                                         *)
(* The invariant follows a token from the pool to its cell: a block is one *)
(* request's in one place, or free (BlocksInv); the row of a running       *)
(* request names its blocks (RowsInv), which have room for what the step   *)
(* adds (RoomInv), as the step's budget bounds (BudgetInv); each published *)
(* slot is the place of one of the step's tokens, or null (SlotsInv); and  *)
(* what was stored is still there (CacheInv).                              *)
(*                                                                         *)
(* From there to the answers: a step is given its sequences' tokens, rows  *)
(* and parts of the query in order (StepInv); the stack of tiles made for  *)
(* a sequence shows each row exactly what it may see, each place once      *)
(* (Stacks, ShownIsSeen); and what a walk of such a stack stores is the    *)
(* answer, in the loop (LoopAnswers) and in a batch (BatchAnswers).        *)
(***************************************************************************)
EXTENDS PagedAttention, FiniteSetTheorems, SequenceTheorems, WellFoundedInduction, TLAPS

Blocks == 1..(NumBlocks - 1)

TypeInv ==
    /\ layer \in Layers /\ phase \in {"idle", "built", "stored", "attended"}
    /\ row \in [Requests -> 0..MaxNumSeqs]
    /\ table \in [Rows -> [0..(Width - 1) -> 0..(NumBlocks - 1)]]
    /\ blocks \in [Requests -> Seq(Blocks)] /\ free \in Seq(Blocks)
    /\ computed \in [Requests -> Nat] /\ known \in [Requests -> Nat]
    /\ scheduled \in [Requests -> 0..Budget] /\ left \in 0..Budget

Distinct(s) == \A i, j \in DOMAIN s : s[i] = s[j] => i = j
Apart(s, t) == \A i \in DOMAIN s, j \in DOMAIN t : s[i] # t[j]

\* A block is one request's, in one place, or free.
BlocksInv ==
    /\ Distinct(free) /\ \A r \in Requests : Distinct(blocks[r]) /\ Apart(blocks[r], free)
    /\ \A r, s \in Requests : r # s => Apart(blocks[r], blocks[s])

\* A running request has a row of its own, which names its blocks.
RowsInv ==
    /\ \A r \in Requests \ Running :
          /\ blocks[r] = <<>> /\ scheduled[r] = 0
          /\ r \in Unfinished => computed[r] = 0
    /\ Batch \subseteq Unfinished
    /\ \A r, s \in Running : row[r] = row[s] => r = s
    /\ \A r \in Running : \A c \in 0..(Width - 1) :
          c < Len(blocks[r]) => table[row[r]][c] = blocks[r][c + 1]

\* Its blocks have room for its tokens, those of the step included.
Reach(r) == computed[r] + scheduled[r]

RoomInv ==
    /\ \A r \in Requests : Reach(r) <= known[r] /\ known[r] <= Length[r]
    /\ \A r \in Running : Reach(r) <= Len(blocks[r]) * BlockSize

BatchTokens == {t \in Requests \X (1..Budget) : t[2] <= scheduled[t[1]]}
BudgetInv   == Cardinality(BatchTokens) = Budget - left

\* What the step stores goes to the places of its tokens, or to the null slot.
BlockOf(r, p) == blocks[r][p \div BlockSize + 1]
SlotOf(r, p)  == BlockOf(r, p) * BlockSize + (p % BlockSize)
Cell(r, p, h) == LiesAt(layer, BlockOf(r, p), h, p % BlockSize)

SlotsInv ==
    phase = "built" =>
        /\ \A i \in DOMAIN slots :
              \/ slots[i] = _NULL_SLOT
              \/ \E r \in Batch : \E p \in computed[r]..(Reach(r) - 1) :
                    query[i - 1] = <<r, p>> /\ slots[i] = SlotOf(r, p)
        /\ \A r \in Batch : \A p \in computed[r]..(Reach(r) - 1) :
              \E i \in DOMAIN slots : query[i - 1] = <<r, p>> /\ slots[i] = SlotOf(r, p)

Stored(r) == IF phase \in {"stored", "attended"} THEN Reach(r) ELSE computed[r]

CacheInv ==
    \A r \in Running : \A p \in 0..(Stored(r) - 1), h \in 0..(layer.heads - 1) :
        Held(r, p, h) = {<<r, p, h>>}

Inv == TypeInv /\ BlocksInv /\ RowsInv /\ RoomInv /\ BudgetInv /\ SlotsInv /\ CacheInv

(***************************************************************************)
(* Numbers: a block and an offset in it are told from the place they add   *)
(* up to.                                                                  *)
(***************************************************************************)

\* The next multiple is past everything that the last one begins.
LEMMA NextMultiple ==
    ASSUME NEW a \in Nat, NEW b \in Nat, NEW n \in Nat, a < b
    PROVE  a * n + n <= b * n
<1>1. PICK d \in Nat : b = a + 1 + d
  <2>1. b - a - 1 \in Nat /\ b = a + 1 + (b - a - 1)
    OBVIOUS
  <2> QED
    BY <2>1
<1>2. b * n = a * n + n + d * n /\ d * n \in Nat /\ a * n \in Nat
  BY <1>1
<1> QED
  BY <1>2

\* A number has one quotient and one remainder.
LEMMA PartsAreUnique ==
    ASSUME NEW n \in Nat, NEW a \in Nat, NEW b \in Nat, NEW i \in 0..(n - 1), NEW j \in 0..(n - 1),
           a * n + i = b * n + j
    PROVE  a = b /\ i = j
<1>1. a * n \in Nat /\ b * n \in Nat
  OBVIOUS
<1>2. ~(a < b)
  <2> SUFFICES ASSUME a < b PROVE FALSE
    OBVIOUS
  <2>1. a * n + n <= b * n
    BY NextMultiple
  <2> QED
    BY <2>1, <1>1
<1>3. ~(b < a)
  <2> SUFFICES ASSUME b < a PROVE FALSE
    OBVIOUS
  <2>1. b * n + n <= a * n
    BY NextMultiple
  <2> QED
    BY <2>1, <1>1
<1> QED
  BY <1>1, <1>2, <1>3

\* A number is its quotient and its remainder.
LEMMA Parts ==
    ASSUME NEW n \in Nat \ {0}, NEW x \in Nat
    PROVE  /\ x \div n \in Nat /\ x % n \in 0..(n - 1) /\ x = (x \div n) * n + (x % n)
  OBVIOUS

\* A slot gives its block and its offset back.
LEMMA PartsOfSum ==
    ASSUME NEW n \in Nat \ {0}, NEW a \in Nat, NEW i \in 0..(n - 1)
    PROVE  (a * n + i) \div n = a /\ (a * n + i) % n = i
<1> DEFINE x == a * n + i
<1>1. x \in Nat
  OBVIOUS
<1>2. x \div n \in Nat /\ x % n \in 0..(n - 1) /\ x = (x \div n) * n + (x % n)
  BY <1>1, Parts
<1> QED
  BY <1>2, PartsAreUnique

\* A place in one of m blocks of n.
LEMMA SumWithin ==
    ASSUME NEW n \in Nat, NEW m \in Nat, NEW a \in 0..(m - 1), NEW i \in 0..(n - 1)
    PROVE  a * n + i \in 0..(m * n - 1)
<1>1. a * n + n <= m * n /\ a * n \in Nat /\ m * n \in Nat
  BY NextMultiple
<1> QED
  BY <1>1

\* A token that its blocks have room for is in one of them.
LEMMA QuotientBelow ==
    ASSUME NEW n \in Nat \ {0}, NEW m \in Nat, NEW x \in Nat, x < m * n
    PROVE  x \div n \in 0..(m - 1)
<1>1. x \div n \in Nat /\ x % n \in 0..(n - 1) /\ x = (x \div n) * n + (x % n)
  BY Parts
<1>2. ~(m <= x \div n)
  <2> SUFFICES ASSUME m <= x \div n PROVE FALSE
    OBVIOUS
  <2>1. m * n <= (x \div n) * n
    <3>1. CASE m = x \div n
      BY <3>1, <1>1
    <3>2. CASE m < x \div n
      BY <3>2, <1>1, NextMultiple
    <3> QED
      BY <3>1, <3>2, <1>1
  <2>2. (x \div n) * n \in Nat /\ m * n \in Nat
    BY <1>1
  <2> QED
    BY <2>1, <2>2, <1>1
<1> QED
  BY <1>1, <1>2

\* Blocks are taken for whole and for begun pages.
LEMMA CeilingCovers ==
    ASSUME NEW n \in Nat, NEW d \in Nat \ {0}
    PROVE  CeilDiv(n, d) \in Nat /\ n <= CeilDiv(n, d) * d
<1> DEFINE x == n + d - 1
<1>1. x \in Nat
  OBVIOUS
<1>2. x \div d \in Nat /\ x % d \in 0..(d - 1) /\ x = (x \div d) * d + (x % d)
  BY <1>1, Parts
<1>3. (x \div d) * d \in Nat
  BY <1>2
<1>4. n <= (x \div d) * d
  BY <1>2, <1>3
<1> QED
  BY <1>2, <1>4 DEF CeilDiv

(***************************************************************************)
(* Memory: the index a token's key is stored at is the place every kernel  *)
(* reads it from, and no two tokens or heads share one, in either layout.  *)
(***************************************************************************)

\* kv_write_index, given a slot, is where the kernels look (both layouts).
LEMMA IndexIsPlace ==
    ASSUME NEW l \in Layers, NEW b \in Nat, NEW o \in Offsets, NEW h \in Nat
    PROVE  kv_write_index(l, b * BlockSize + o, h) = LiesAt(l, b, h, o)
<1>1. l.heads \in Nat /\ BlockSize \in Nat \ {0} /\ o \in 0..(BlockSize - 1)
  BY LayerAssumption, KernelAssumption DEF Offsets
<1>2. (b * BlockSize + o) \div BlockSize = b /\ (b * BlockSize + o) % BlockSize = o
  BY <1>1, PartsOfSum
<1>3. b * l.heads * BlockSize + o + h * BlockSize = (b * l.heads + h) * BlockSize + o
  BY <1>1
<1> QED
  BY <1>2, <1>3 DEF kv_write_index, LiesAt, Head_major, Token_major

\* No two blocks, offsets or heads share a cell.
LEMMA PlacesApart ==
    ASSUME NEW l \in Layers, NEW a \in Nat, NEW b \in Nat, NEW i \in Offsets, NEW j \in Offsets,
           NEW g \in 0..(l.heads - 1), NEW h \in 0..(l.heads - 1),
           LiesAt(l, a, g, i) = LiesAt(l, b, h, j)
    PROVE  a = b /\ g = h /\ i = j
<1> DEFINE m == l.heads
<1>1. m \in Nat /\ BlockSize \in Nat /\ l.headMajor \in BOOLEAN
  BY LayerAssumption, KernelAssumption
<1>2. g \in 0..(m - 1) /\ h \in 0..(m - 1) /\ i \in 0..(BlockSize - 1) /\ j \in 0..(BlockSize - 1)
  BY DEF Offsets
<1>3. l.headMajor => (a * m + g) * BlockSize + i = (b * m + h) * BlockSize + j
  BY DEF LiesAt, Head_major
<1>4. ~l.headMajor => (a * BlockSize + i) * m + g = (b * BlockSize + j) * m + h
  BY DEF LiesAt, Token_major
<1> HIDE DEF m
<1>5. CASE l.headMajor
  <2> DEFINE x == a * m + g
             y == b * m + h
  <2>1. x \in Nat /\ y \in Nat /\ x * BlockSize + i = y * BlockSize + j
    BY <1>1, <1>2, <1>3, <1>5
  <2>2. a * m + g = b * m + h => a = b /\ g = h
    BY <1>1, <1>2, PartsAreUnique
  <2> HIDE DEF x, y
  <2>3. x = y /\ i = j
    BY <1>1, <1>2, <2>1, PartsAreUnique
  <2> QED
    BY <2>2, <2>3 DEF x, y
<1>6. CASE ~l.headMajor
  <2> DEFINE x == a * BlockSize + i
             y == b * BlockSize + j
  <2>1. x \in Nat /\ y \in Nat /\ x * m + g = y * m + h
    BY <1>1, <1>2, <1>4, <1>6
  <2>2. a * BlockSize + i = b * BlockSize + j => a = b /\ i = j
    BY <1>1, <1>2, PartsAreUnique
  <2> HIDE DEF x, y
  <2>3. x = y /\ g = h
    BY <1>1, <1>2, <2>1, PartsAreUnique
  <2> QED
    BY <2>2, <2>3 DEF x, y
<1> QED
  BY <1>1, <1>5, <1>6

\* A block of the pool lies in the cache that was allocated.
LEMMA PlaceIsThere ==
    ASSUME NEW l \in Layers, NEW b \in 0..(NumBlocks - 1), NEW o \in Offsets, NEW h \in 0..(l.heads - 1)
    PROVE  LiesAt(l, b, h, o) \in Addresses(l)
<1>1. /\ l.heads \in Nat /\ BlockSize \in Nat /\ NumBlocks \in Nat /\ o \in 0..(BlockSize - 1)
  BY LayerAssumption, KernelAssumption DEF Offsets
<1>2. CASE l.headMajor
  <2>1. b * l.heads + h \in 0..(NumBlocks * l.heads - 1) /\ NumBlocks * l.heads \in Nat
    BY <1>1, SumWithin
  <2>2. (b * l.heads + h) * BlockSize + o \in 0..((NumBlocks * l.heads) * BlockSize - 1)
    BY <1>1, <2>1, SumWithin
  <2>3. (NumBlocks * l.heads) * BlockSize = NumBlocks * BlockSize * l.heads
    BY <1>1
  <2> QED
    BY <1>2, <2>2, <2>3 DEF LiesAt, Head_major, Addresses
<1>3. CASE ~l.headMajor
  <2>1. b * BlockSize + o \in 0..(NumBlocks * BlockSize - 1) /\ NumBlocks * BlockSize \in Nat
    BY <1>1, SumWithin
  <2>2. (b * BlockSize + o) * l.heads + h \in 0..((NumBlocks * BlockSize) * l.heads - 1)
    BY <1>1, <2>1, SumWithin
  <2> QED
    BY <1>3, <2>2 DEF LiesAt, Token_major, Addresses
<1> QED
  BY <1>2, <1>3

(***************************************************************************)
(* The places of a request's tokens.                                       *)
(***************************************************************************)

\* What the later lemmas need to know of a request.
LEMMA Types ==
    ASSUME TypeInv, NEW r \in Requests
    PROVE  /\ layer \in Layers /\ layer.heads \in Nat
           /\ BlockSize \in Nat \ {0} /\ NumBlocks \in Nat \ {0} /\ Budget \in Nat /\ MaxModelLen \in Nat
           /\ computed[r] \in Nat /\ known[r] \in Nat /\ scheduled[r] \in 0..Budget /\ left \in 0..Budget
           /\ Reach(r) \in Nat /\ Length[r] \in Nat /\ Length[r] <= MaxModelLen
           /\ blocks[r] \in Seq(Blocks) /\ Len(blocks[r]) \in Nat
           /\ DOMAIN blocks[r] = 1..Len(blocks[r]) /\ row[r] \in 0..MaxNumSeqs
<1>1. layer \in Layers /\ layer.heads \in Nat
  BY LayerAssumption DEF TypeInv
<1>2. BlockSize \in Nat \ {0} /\ NumBlocks \in Nat \ {0} /\ MaxModelLen \in Nat /\ Budget \in Nat
  BY KernelAssumption, StepAssumption
<1>3. computed[r] \in Nat /\ known[r] \in Nat /\ scheduled[r] \in 0..Budget /\ left \in 0..Budget
  BY DEF TypeInv
<1>4. Length[r] \in Nat /\ Length[r] <= MaxModelLen
  BY StepAssumption
<1>5. blocks[r] \in Seq(Blocks) /\ row[r] \in 0..MaxNumSeqs
  BY Zenon DEF TypeInv
<1> QED
  BY <1>1, <1>2, <1>3, <1>4, <1>5 DEF Reach

\* A token below the model's limit has a column of the block table.
LEMMA Column ==
    ASSUME NEW p \in Nat, p < MaxModelLen PROVE p \div BlockSize \in 0..(Width - 1)
<1>1. BlockSize \in Nat \ {0} /\ MaxModelLen \in Nat
  BY KernelAssumption
<1>2. Width \in Nat /\ MaxModelLen <= Width * BlockSize
  BY <1>1, CeilingCovers DEF Width
<1>3. p < Width * BlockSize
  BY <1>1, <1>2
<1> QED
  BY <1>1, <1>2, <1>3, QuotientBelow

\* A token of a running request is in a block that its row names.
LEMMA TokenHasBlock ==
    ASSUME TypeInv, RowsInv, RoomInv, NEW r \in Running, NEW p \in 0..(Reach(r) - 1)
    PROVE  /\ r \in Requests /\ p \in Nat /\ p % BlockSize \in Offsets
           /\ p \div BlockSize + 1 \in DOMAIN blocks[r] /\ BlockOf(r, p) \in Blocks
           /\ p \div BlockSize \in 0..(Width - 1) /\ table[row[r]][p \div BlockSize] = BlockOf(r, p)
<1>1. r \in Requests
  BY DEF Running
<1>2. /\ BlockSize \in Nat \ {0} /\ Reach(r) \in Nat /\ Len(blocks[r]) \in Nat /\ blocks[r] \in Seq(Blocks)
      /\ DOMAIN blocks[r] = 1..Len(blocks[r]) /\ Length[r] \in Nat /\ Length[r] <= MaxModelLen
      /\ MaxModelLen \in Nat /\ known[r] \in Nat
  BY <1>1, Types
<1>3. p \in Nat /\ p < Reach(r)
  BY <1>2
<1>4. p < Len(blocks[r]) * BlockSize /\ p < MaxModelLen
  BY <1>1, <1>2, <1>3 DEF RoomInv
<1>5. p \div BlockSize \in 0..(Len(blocks[r]) - 1) /\ p % BlockSize \in 0..(BlockSize - 1)
  BY <1>2, <1>3, <1>4, QuotientBelow, Parts
<1>6. p \div BlockSize + 1 \in DOMAIN blocks[r] /\ p \div BlockSize < Len(blocks[r])
  BY <1>2, <1>5
<1>7. BlockOf(r, p) \in Blocks
  BY <1>2, <1>6, ElementOfSeq DEF BlockOf
<1>8. p \div BlockSize \in 0..(Width - 1)
  BY <1>3, <1>4, Column
<1>9. table[row[r]][p \div BlockSize] = BlockOf(r, p)
  BY <1>6, <1>8 DEF RowsInv, BlockOf
<1> QED
  BY <1>1, <1>3, <1>5, <1>6, <1>7, <1>8, <1>9 DEF Offsets

\* The cell a token is read from.
LEMMA HeldInCell ==
    ASSUME NEW r, NEW p, NEW h PROVE Held(r, p, h) = memory[Cell(r, p, h)]
  BY DEF Held, Cell, LiesAt, BlockOf

\* A block that is not the null block holds no other token, head by head.
LEMMA CellsApart ==
    ASSUME TypeInv, RowsInv, RoomInv, BlocksInv, NEW r \in Running, NEW p \in 0..(Reach(r) - 1),
           NEW s \in Running, NEW q \in 0..(Reach(s) - 1),
           NEW g \in 0..(layer.heads - 1), NEW h \in 0..(layer.heads - 1), Cell(r, p, g) = Cell(s, q, h)
    PROVE  r = s /\ p = q /\ g = h
<1>1. /\ r \in Requests /\ p \in Nat /\ p % BlockSize \in Offsets
      /\ p \div BlockSize + 1 \in DOMAIN blocks[r] /\ BlockOf(r, p) \in Blocks
  BY TokenHasBlock
<1>2. /\ s \in Requests /\ q \in Nat /\ q % BlockSize \in Offsets
      /\ q \div BlockSize + 1 \in DOMAIN blocks[s] /\ BlockOf(s, q) \in Blocks
  BY TokenHasBlock
<1>3. layer \in Layers /\ BlockSize \in Nat \ {0}
  BY KernelAssumption DEF TypeInv
<1>4. BlockOf(r, p) \in Nat /\ BlockOf(s, q) \in Nat
  BY <1>1, <1>2, KernelAssumption DEF Blocks
<1>5. BlockOf(r, p) = BlockOf(s, q) /\ g = h /\ p % BlockSize = q % BlockSize
  BY <1>1, <1>2, <1>3, <1>4, PlacesApart DEF Cell
<1>6. r = s /\ p \div BlockSize + 1 = q \div BlockSize + 1
  <2> DEFINE i == p \div BlockSize + 1
             j == q \div BlockSize + 1
  <2>1. i \in DOMAIN blocks[r] /\ j \in DOMAIN blocks[s] /\ blocks[r][i] = blocks[s][j]
    BY <1>1, <1>2, <1>5 DEF BlockOf
  <2> HIDE DEF i, j
  <2>2. r = s /\ i = j
    BY <1>1, <1>2, <2>1 DEF BlocksInv, Distinct, Apart
  <2> QED
    BY <2>2 DEF i, j
<1>7. p \div BlockSize = q \div BlockSize
  BY <1>1, <1>2, <1>3, <1>6, Parts
<1>8. p = (p \div BlockSize) * BlockSize + (p % BlockSize) /\ q = (q \div BlockSize) * BlockSize + (q % BlockSize)
  BY <1>1, <1>2, <1>3, Parts
<1>9. p = q
  BY <1>5, <1>7, <1>8, Zenon
<1> QED
  BY <1>5, <1>6, <1>9

\* A token's cell is one of the cache's.
LEMMA CellIsThere ==
    ASSUME TypeInv, RowsInv, RoomInv, NEW r \in Running, NEW p \in 0..(Reach(r) - 1),
           NEW h \in 0..(layer.heads - 1)
    PROVE  Cell(r, p, h) \in Addresses(layer)
<1>1. p % BlockSize \in Offsets /\ BlockOf(r, p) \in Blocks
  BY TokenHasBlock
<1>2. BlockOf(r, p) \in 0..(NumBlocks - 1) /\ layer \in Layers
  BY <1>1, KernelAssumption DEF Blocks, TypeInv
<1> QED
  BY <1>1, <1>2, PlaceIsThere DEF Cell

\* No index of a token stored to the null slot is a token's cell.
LEMMA NullIsApart ==
    ASSUME TypeInv, RowsInv, RoomInv, NEW r \in Running, NEW p \in 0..(Reach(r) - 1),
           NEW g \in 0..(layer.heads - 1), NEW h \in 0..(layer.heads - 1)
    PROVE  kv_write_index(layer, _NULL_SLOT, g) # Cell(r, p, h)
<1>1. p % BlockSize \in Offsets /\ BlockOf(r, p) \in Blocks
  BY TokenHasBlock
<1>2. layer \in Layers /\ BlockSize \in Nat \ {0} /\ layer.heads \in Nat /\ NumBlocks \in Nat
  BY KernelAssumption, LayerAssumption DEF TypeInv
<1>3. 0 \in Offsets /\ 0 * BlockSize + 0 = 0 /\ g \in Nat
  BY <1>2 DEF Offsets
<1>4. kv_write_index(layer, 0, g) = LiesAt(layer, 0, g, 0)
  BY <1>2, <1>3, IndexIsPlace
<1>5. BlockOf(r, p) \in Nat /\ BlockOf(r, p) # 0
  BY <1>1, <1>2 DEF Blocks
<1> QED
  BY <1>1, <1>2, <1>3, <1>4, <1>5, PlacesApart DEF Cell, _NULL_SLOT

\* The slot of a token is stored to in the token's cell.
LEMMA SlotIndex ==
    ASSUME TypeInv, RowsInv, RoomInv, NEW r \in Running, NEW p \in 0..(Reach(r) - 1),
           NEW h \in 0..(layer.heads - 1)
    PROVE  kv_write_index(layer, SlotOf(r, p), h) = Cell(r, p, h)
<1>1. p % BlockSize \in Offsets /\ BlockOf(r, p) \in Blocks
  BY TokenHasBlock
<1>2. layer \in Layers /\ layer.heads \in Nat /\ NumBlocks \in Nat
  BY KernelAssumption, LayerAssumption DEF TypeInv
<1>3. BlockOf(r, p) \in Nat /\ h \in Nat
  BY <1>1, <1>2 DEF Blocks
<1> QED
  BY <1>1, <1>2, <1>3, IndexIsPlace DEF Cell, SlotOf

(***************************************************************************)
(* Steps that leave the pool alone.                                        *)
(***************************************************************************)

\* What a step of the forward pass cannot disturb.
LEMMA PoolKept ==
    ASSUME Inv, UNCHANGED <<layer, pool, request, plan>>,
           phase' \in {"idle", "built", "stored", "attended"}
    PROVE  /\ TypeInv' /\ BlocksInv' /\ RowsInv' /\ RoomInv' /\ BudgetInv'
           /\ Running' = Running /\ Batch' = Batch
           /\ \A r : Reach(r)' = Reach(r)
           /\ \A r, p : SlotOf(r, p)' = SlotOf(r, p)
           /\ \A r, p, h : Cell(r, p, h)' = Cell(r, p, h)
<1>1. UNCHANGED <<layer, row, table, blocks, free, computed, known, scheduled, left>>
  BY DEF pool, request, plan
<1>2. Running' = Running /\ Batch' = Batch /\ Unfinished' = Unfinished /\ BatchTokens' = BatchTokens
  BY <1>1 DEF Running, Batch, Unfinished, BatchTokens
<1>3. TypeInv'
  BY <1>1, Zenon DEF Inv, TypeInv
<1>4. BlocksInv'
  <2>1. blocks' = blocks /\ free' = free
    BY <1>1
  <2> QED
    BY <2>1 DEF Inv, BlocksInv
<1>5. RowsInv'
  BY <1>1, <1>2, Zenon DEF Inv, RowsInv
<1>6. \A r : Reach(r)' = Reach(r)
  BY <1>1 DEF Reach
<1>7. RoomInv'
  BY <1>1, <1>2, <1>6, Zenon DEF Inv, RoomInv
<1>8. BudgetInv'
  BY <1>1, <1>2, Zenon DEF Inv, BudgetInv
<1>9. \A r, p : SlotOf(r, p)' = SlotOf(r, p)
  BY <1>1 DEF SlotOf, BlockOf
<1>10. \A r, p, h : Cell(r, p, h)' = Cell(r, p, h)
  BY <1>1 DEF Cell, BlockOf
<1> QED
  BY <1>2, <1>3, <1>4, <1>5, <1>6, <1>7, <1>8, <1>9, <1>10

\* A token and a head, as the store puts them together.
LEMMA TripleByAppend == ASSUME NEW r, NEW p, NEW h PROVE Append(<<r, p>>, h) = <<r, p, h>>
<1> DEFINE T == {r, p, h}
           s == Append(<<r, p>>, h)
<1>1. <<r, p>> \in Seq(T) /\ Len(<<r, p>>) = 2 /\ h \in T
  OBVIOUS
<1>2. s \in Seq(T) /\ Len(s) = 3 /\ s[1] = r /\ s[2] = p /\ s[3] = h
  BY <1>1, AppendProperties
<1>3. <<r, p, h>> \in Seq(T) /\ Len(<<r, p, h>>) = 3
  OBVIOUS
<1> HIDE DEF s, T
<1>4. \A i \in 1..Len(s) : s[i] = <<r, p, h>>[i]
  BY <1>2
<1>5. s = <<r, p, h>>
  BY <1>2, <1>3, <1>4, SeqEqual
<1> QED
  BY <1>5 DEF s

\* The token of a slot that is stored to is the one its cell is read for.
LEMMA StoreKvKeeps == ASSUME Inv, StoreKv PROVE Inv'
<1>1. /\ phase = "built" /\ phase' = "stored" /\ memory' = reshape_and_cache(layer, memory, slots, Keys)
      /\ UNCHANGED <<layer, pool, request, plan, slots, query>>
  BY DEF StoreKv
<1>2. /\ TypeInv' /\ BlocksInv' /\ RowsInv' /\ RoomInv' /\ BudgetInv'
      /\ Running' = Running /\ Batch' = Batch /\ layer' = layer
      /\ \A r : Reach(r)' = Reach(r)
      /\ \A r, p, h : Cell(r, p, h)' = Cell(r, p, h)
  BY <1>1, PoolKept
<1>3. SlotsInv'
  BY <1>1 DEF SlotsInv
<1>4. ASSUME NEW r \in Running, NEW p \in 0..(Reach(r) - 1), NEW h \in 0..(layer.heads - 1)
      PROVE  memory'[Cell(r, p, h)] = {<<r, p, h>>}
  <2> DEFINE a == Cell(r, p, h)
             hits == {e \in (DOMAIN slots) \X (0..(layer.heads - 1)) :
                         kv_write_index(layer, slots[e[1]], e[2]) = a}
  <2>1. a \in Addresses(layer) /\ r \in Requests /\ p \in Nat
    BY CellIsThere, TokenHasBlock DEF Inv
  <2>2. memory'[a] = IF hits = {} THEN memory[a] ELSE {Append(Keys[e[1]], e[2]) : e \in hits}
    BY <1>1, <2>1 DEF reshape_and_cache
  <2>3. ASSUME NEW e \in hits PROVE p >= computed[r] /\ Append(Keys[e[1]], e[2]) = <<r, p, h>>
    <3>1. e[1] \in DOMAIN slots /\ e[2] \in 0..(layer.heads - 1)
          /\ kv_write_index(layer, slots[e[1]], e[2]) = Cell(r, p, h)
      OBVIOUS
    <3>2. slots[e[1]] # _NULL_SLOT
      BY <3>1, NullIsApart DEF Inv
    <3>3. PICK s \in Batch : \E q \in computed[s]..(Reach(s) - 1) :
                query[e[1] - 1] = <<s, q>> /\ slots[e[1]] = SlotOf(s, q)
      BY <1>1, <3>1, <3>2, Zenon DEF Inv, SlotsInv
    <3>4. PICK q \in computed[s]..(Reach(s) - 1) : query[e[1] - 1] = <<s, q>> /\ slots[e[1]] = SlotOf(s, q)
      BY <3>3
    <3>5. s \in Running
      BY DEF Batch, Inv, RowsInv, Running
    <3>6. s \in Requests /\ computed[s] \in Nat /\ Reach(s) \in Nat
      BY <3>5, Types DEF Inv, Running
    <3>7. q \in 0..(Reach(s) - 1)
      BY <3>4, <3>6
    <3>8. Cell(s, q, e[2]) = Cell(r, p, h)
      BY <3>1, <3>4, <3>5, <3>7, SlotIndex DEF Inv
    <3>9. s = r /\ q = p /\ e[2] = h
      BY <3>1, <3>5, <3>7, <3>8, CellsApart DEF Inv
    <3>10. Keys[e[1]] = <<r, p>>
      BY <3>1, <3>4, <3>9 DEF Keys
    <3> QED
      BY <3>4, <3>6, <3>9, <3>10, TripleByAppend
  <2>4. CASE p < computed[r]
    <3>1. computed[r] \in Nat /\ hits = {}
      BY <2>1, <2>3, <2>4, Types DEF Inv
    <3>2. p \in 0..(Stored(r) - 1)
      BY <1>1, <2>1, <2>4, <3>1 DEF Stored
    <3>3. Held(r, p, h) = {<<r, p, h>>}
      BY <3>2, Zenon DEF Inv, CacheInv
    <3> QED
      BY <2>2, <3>1, <3>3, HeldInCell
  <2>5. CASE ~(p < computed[r])
    <3>1. /\ computed[r] \in Nat /\ Reach(r) \in Nat /\ Reach(r) = computed[r] + scheduled[r]
          /\ scheduled[r] \in Nat
      BY <2>1, Types DEF Inv, Reach
    <3>2. r \in Batch /\ p \in computed[r]..(Reach(r) - 1)
      BY <2>1, <2>5, <3>1 DEF Batch
    <3>3. PICK i \in DOMAIN slots : query[i - 1] = <<r, p>> /\ slots[i] = SlotOf(r, p)
      BY <1>1, <3>2, Zenon DEF Inv, SlotsInv
    <3>4. kv_write_index(layer, slots[i], h) = a
      BY <3>3, SlotIndex DEF Inv
    <3>5. <<i, h>> \in hits
      BY <3>4
    <3> QED
      BY <2>2, <2>3, <3>5
  <2> QED
    BY <2>4, <2>5
<1>5. CacheInv'
  <2> SUFFICES ASSUME NEW r \in Running, NEW p \in 0..(Reach(r) - 1), NEW h \in 0..(layer.heads - 1)
               PROVE  Held(r, p, h)' = {<<r, p, h>>}
    BY <1>1, <1>2 DEF CacheInv, Stored
  <2>1. Held(r, p, h)' = memory'[Cell(r, p, h)']
    BY DEF Held, Cell, LiesAt, BlockOf
  <2> QED
    BY <1>2, <1>4, <2>1
<1> QED
  BY <1>2, <1>3, <1>5 DEF Inv

\* Only the null block is stored to where there is no metadata.
LEMMA DummyRunKeeps == ASSUME Inv, NEW n \in BodySizes, DummyRun(n) PROVE Inv'
<1>1. /\ phase = "idle" /\ phase' = "idle" /\ slots' = [i \in 1..n |-> _NULL_SLOT]
      /\ memory' = reshape_and_cache(layer, memory, slots', [i \in DOMAIN slots' |-> Junk])
      /\ UNCHANGED <<layer, pool, request, plan>>
  BY DEF DummyRun, publish_null
<1>2. /\ TypeInv' /\ BlocksInv' /\ RowsInv' /\ RoomInv' /\ BudgetInv'
      /\ Running' = Running /\ layer' = layer /\ \A r : Reach(r)' = Reach(r)
      /\ \A r, p, h : Cell(r, p, h)' = Cell(r, p, h)
  BY <1>1, PoolKept
<1>3. SlotsInv'
  BY <1>1 DEF SlotsInv
<1>4. CacheInv'
  <2> SUFFICES ASSUME NEW r \in Running, NEW p \in 0..(Stored(r)' - 1), NEW h \in 0..(layer.heads - 1)
               PROVE  Held(r, p, h)' = {<<r, p, h>>}
    BY <1>2 DEF CacheInv
  <2>1. Stored(r)' = Stored(r) /\ Stored(r) = computed[r]
    BY <1>1 DEF Stored, request
  <2>2. r \in Requests /\ p \in 0..(Reach(r) - 1)
    <3>1. r \in Requests
      BY DEF Running
    <3>2. computed[r] \in Nat /\ scheduled[r] \in 0..Budget /\ Budget \in Nat
      BY <3>1, Types DEF Inv
    <3> QED
      BY <2>1, <3>1, <3>2 DEF Reach
  <2> DEFINE a == Cell(r, p, h)
             hits == {e \in (DOMAIN slots') \X (0..(layer.heads - 1)) :
                         kv_write_index(layer, slots'[e[1]], e[2]) = a}
  <2>3. a \in Addresses(layer)
    BY <2>2, CellIsThere DEF Inv
  <2>4. hits = {}
    <3> SUFFICES ASSUME NEW e \in hits PROVE FALSE
      OBVIOUS
    <3>1. e[2] \in 0..(layer.heads - 1) /\ kv_write_index(layer, _NULL_SLOT, e[2]) = Cell(r, p, h)
      BY <1>1
    <3> QED
      BY <2>2, <3>1, NullIsApart DEF Inv
  <2>5. memory'[a] = memory[a]
    BY <1>1, <2>3, <2>4 DEF reshape_and_cache
  <2>6. Held(r, p, h)' = memory'[Cell(r, p, h)']
    BY DEF Held, Cell, LiesAt, BlockOf
  <2>7. Held(r, p, h) = {<<r, p, h>>}
    BY <2>1, Zenon DEF Inv, CacheInv
  <2> QED
    BY <1>2, <2>5, <2>6, <2>7, HeldInCell
<1> QED
  BY <1>2, <1>3, <1>4 DEF Inv

\* The pass reads the cache and stores to the staging buffers only.
LEMMA ForwardKeeps == ASSUME Inv, forward PROVE Inv'
<1>1. /\ phase = "stored" /\ phase' = "attended" /\ memory' = memory
      /\ UNCHANGED <<layer, pool, request, plan, slots, query>>
  BY DEF forward
<1>2. /\ TypeInv' /\ BlocksInv' /\ RowsInv' /\ RoomInv' /\ BudgetInv'
      /\ Running' = Running /\ layer' = layer /\ \A r : Reach(r)' = Reach(r)
      /\ \A r, p, h : Cell(r, p, h)' = Cell(r, p, h)
  BY <1>1, PoolKept
<1>3. SlotsInv'
  BY <1>1 DEF SlotsInv
<1>4. CacheInv'
  <2> SUFFICES ASSUME NEW r \in Running, NEW p \in 0..(Stored(r)' - 1), NEW h \in 0..(layer.heads - 1)
               PROVE  Held(r, p, h)' = {<<r, p, h>>}
    BY <1>2 DEF CacheInv
  <2>1. Stored(r)' = Stored(r)
    BY <1>1, <1>2 DEF Stored
  <2>2. Held(r, p, h) = {<<r, p, h>>}
    BY <2>1, Zenon DEF Inv, CacheInv
  <2>3. Held(r, p, h)' = memory'[Cell(r, p, h)']
    BY DEF Held, Cell, LiesAt, BlockOf
  <2> QED
    BY <1>1, <1>2, <2>2, <2>3, HeldInCell
<1> QED
  BY <1>2, <1>3, <1>4 DEF Inv

(***************************************************************************)
(* The scheduler hears of a step.                                          *)
(***************************************************************************)

\* A step's tokens become computed ones; their cells hold them already.
LEMMA ReturnKeeps == ASSUME Inv, Return PROVE Inv'
<1>1. /\ phase = "attended" /\ phase' = "idle"
      /\ computed' = [r \in Requests |-> Reach(r)] /\ scheduled' = [r \in Requests |-> 0] /\ left' = Budget
      /\ known' = [r \in Requests |-> Larger(known[r], Smaller(Reach(r) + 1, Length[r]))]
      /\ UNCHANGED <<layer, row, table, blocks, free, memory>>
  <2>1. phase = "attended" /\ phase' = "idle" /\ scheduled' = [r \in Requests |-> 0] /\ left' = Budget
    BY DEF Return
  <2>2. UNCHANGED <<layer, row, table, blocks, free, memory>>
    BY DEF Return, pool
  <2>3. computed' = [r \in Requests |-> Reach(r)]
    BY DEF Return, Reach
  <2>4. known' = [r \in Requests |-> Larger(known[r], Smaller(computed'[r] + 1, Length[r]))]
    BY Zenon DEF Return
  <2>5. \A r \in Requests : computed'[r] = Reach(r)
    BY <2>3
  <2> QED
    BY <2>1, <2>2, <2>3, <2>4, <2>5
<1>2. ASSUME NEW r \in Requests
      PROVE  /\ computed'[r] = Reach(r) /\ Reach(r)' = Reach(r) /\ Reach(r) \in Nat /\ computed[r] <= Reach(r)
             /\ scheduled'[r] = 0 /\ known'[r] \in Nat /\ known[r] <= known'[r] /\ known'[r] <= Length[r]
             /\ Reach(r) <= known'[r]
  <2>1. /\ Reach(r) \in Nat /\ known[r] \in Nat /\ Length[r] \in Nat /\ known[r] <= Length[r] /\ Reach(r) <= known[r]
        /\ computed[r] \in Nat /\ scheduled[r] \in Nat /\ Reach(r) = computed[r] + scheduled[r]
    BY Types DEF Inv, RoomInv, Reach
  <2>2. computed'[r] = Reach(r) /\ scheduled'[r] = 0
    BY <1>1
  <2>3. Reach(r)' = Reach(r)
    BY <2>1, <2>2 DEF Reach
  <2>4. known'[r] = Larger(known[r], Smaller(Reach(r) + 1, Length[r]))
    BY <1>1
  <2>5. known'[r] \in Nat /\ known[r] <= known'[r] /\ known'[r] <= Length[r]
    BY <2>1, <2>4 DEF Larger, Smaller
  <2> QED
    BY <2>1, <2>2, <2>3, <2>5
<1>3. TypeInv'
  <2>1. /\ computed' \in [Requests -> Nat] /\ known' \in [Requests -> Nat]
        /\ scheduled' \in [Requests -> 0..Budget] /\ left' \in 0..Budget
    <3>1. Budget \in Nat
      BY StepAssumption
    <3>2. computed' \in [Requests -> Nat]
      BY <1>1, <1>2
    <3>3. known' \in [Requests -> Nat]
      <4>1. \A r \in Requests : known'[r] \in Nat
        BY <1>2
      <4>2. known' = [r \in Requests |-> known'[r]]
        BY <1>1
      <4> QED
        BY <4>1, <4>2
    <3> QED
      BY <1>1, <3>1, <3>2, <3>3
  <2> QED
    BY <1>1, <2>1 DEF Inv, TypeInv
<1>4. BlocksInv'
  BY <1>1 DEF Inv, BlocksInv
<1>5. Running' = Running /\ Batch' = {} /\ Unfinished' \subseteq Unfinished
  <2>1. Running' = Running
    BY <1>1 DEF Running
  <2>2. Batch' = {}
    BY <1>2 DEF Batch
  <2>3. Unfinished' \subseteq Unfinished
    <3> SUFFICES ASSUME NEW r \in Requests, computed'[r] < Length[r] - 1 PROVE computed[r] < Length[r] - 1
      BY DEF Unfinished
    <3> QED
      BY <1>2, Types DEF Inv
  <2> QED
    BY <2>1, <2>2, <2>3
<1>6. RowsInv'
  <2>1. ASSUME NEW r \in Requests \ Running
        PROVE  blocks'[r] = <<>> /\ scheduled'[r] = 0 /\ (r \in Unfinished' => computed'[r] = 0)
    <3>1. blocks[r] = <<>> /\ scheduled[r] = 0 /\ (r \in Unfinished => computed[r] = 0)
      BY DEF Inv, RowsInv
    <3>2. computed'[r] = computed[r]
      BY <1>2, <3>1, Types DEF Inv, Reach
    <3> QED
      BY <1>1, <1>2, <1>5, <3>1, <3>2
  <2>2. /\ \A r, s \in Running : row[r] = row[s] => r = s
        /\ \A r \in Running : \A c \in 0..(Width - 1) :
              c < Len(blocks[r]) => table[row[r]][c] = blocks[r][c + 1]
    BY Zenon DEF Inv, RowsInv
  <2> QED
    BY <1>1, <1>5, <2>1, <2>2 DEF RowsInv
<1>7. RoomInv'
  <2>1. \A r \in Running : r \in Requests /\ Reach(r) <= Len(blocks[r]) * BlockSize
    BY DEF Inv, RoomInv, Running
  <2> QED
    BY <1>1, <1>2, <1>5, <2>1 DEF RoomInv
<1>8. BudgetInv'
  <2>1. BatchTokens' = {}
    BY <1>2 DEF BatchTokens
  <2> QED
    BY <1>1, <2>1, FS_EmptySet, StepAssumption DEF BudgetInv
<1>9. SlotsInv'
  BY <1>1 DEF SlotsInv
<1>10. CacheInv'
  <2> SUFFICES ASSUME NEW r \in Running, NEW p \in 0..(Stored(r)' - 1), NEW h \in 0..(layer.heads - 1)
               PROVE  Held(r, p, h)' = {<<r, p, h>>}
    BY <1>1, <1>5 DEF CacheInv
  <2>1. Stored(r)' = Stored(r)
    BY <1>1, <1>2 DEF Stored, Running
  <2>2. Held(r, p, h) = {<<r, p, h>>}
    BY <2>1, Zenon DEF Inv, CacheInv
  <2> QED
    BY <1>1, <2>2 DEF Held
<1> QED
  BY <1>3, <1>4, <1>6, <1>7, <1>8, <1>9, <1>10 DEF Inv

(***************************************************************************)
(* The queue of free blocks.                                               *)
(***************************************************************************)

\* A sequence turned round has the same elements.
LEMMA Turned ==
    ASSUME NEW T, NEW t \in Seq(T)
    PROVE  /\ Reverse(t) \in Seq(T) /\ Len(Reverse(t)) = Len(t)
           /\ \A i \in 1..Len(t) : Len(t) - i + 1 \in 1..Len(t) /\ Reverse(t)[i] = t[Len(t) - i + 1]
<1>1. Len(t) \in Nat /\ \A i \in 1..Len(t) : Len(t) - i + 1 \in 1..Len(t) /\ t[Len(t) - i + 1] \in T
  <2>1. Len(t) \in Nat /\ \A i \in 1..Len(t) : Len(t) - i + 1 \in 1..Len(t)
    OBVIOUS
  <2> QED
    BY <2>1, ElementOfSeq
<1>2. Reverse(t) = [i \in 1..Len(t) |-> t[Len(t) - i + 1]]
  BY DEF Reverse
<1> DEFINE n == Len(t)
           e == [i \in 1..n |-> t[n - i + 1]]
<1>3. e \in [1..n -> T] /\ n \in Nat
  BY <1>1
<1>4. e \in Seq(T) /\ Len(e) = n
  BY <1>3
<1> QED
  BY <1>1, <1>2, <1>4

\* Blocks that are given back join the queue.
LEMMA Queued ==
    ASSUME NEW T, NEW s \in Seq(T), NEW t \in Seq(T), Distinct(s), Distinct(t), Apart(t, s)
    PROVE  /\ s \o Reverse(t) \in Seq(T) /\ Distinct(s \o Reverse(t))
           /\ \A i \in DOMAIN (s \o Reverse(t)) :
                 \/ \E j \in DOMAIN s : (s \o Reverse(t))[i] = s[j]
                 \/ \E j \in DOMAIN t : (s \o Reverse(t))[i] = t[j]
<1> DEFINE v == Reverse(t)
           u == s \o v
           n == Len(s)
           m == Len(t)
<1>1. /\ v \in Seq(T) /\ Len(v) = m
      /\ \A i \in 1..m : m - i + 1 \in 1..m /\ v[i] = t[m - i + 1]
  BY Turned
<1>2. n \in Nat /\ m \in Nat /\ DOMAIN s = 1..n /\ DOMAIN t = 1..m
  OBVIOUS
<1> HIDE DEF v
<1>3. u \in Seq(T) /\ Len(u) = n + m
  <2>1. u \in Seq(T) /\ Len(u) = Len(s) + Len(v)
    BY <1>1, ConcatProperties, Zenon
  <2> QED
    BY <1>1, <2>1
<1>4. \A i \in 1..(n + m) : u[i] = IF i <= n THEN s[i] ELSE v[i - n]
  BY <1>1, <1>2, ConcatProperties
<1>5. DOMAIN u = 1..(n + m)
  BY <1>3, LenProperties
<1> HIDE DEF u, n, m
<1>6. ASSUME NEW i \in 1..(n + m)
      PROVE  /\ i <= n => i \in 1..n /\ u[i] = s[i]
             /\ ~(i <= n) => m - (i - n) + 1 \in 1..m /\ u[i] = t[m - (i - n) + 1]
  <2>1. i <= n => i \in 1..n /\ u[i] = s[i]
    BY <1>2, <1>4
  <2>2. CASE ~(i <= n)
    <3>1. i - n \in 1..m
      BY <1>2, <2>2
    <3>2. u[i] = v[i - n]
      BY <1>4, <2>2
    <3> QED
      BY <1>1, <2>1, <3>1, <3>2
  <2> QED
    BY <2>1, <2>2
<1>7. Distinct(u)
  <2> SUFFICES ASSUME NEW i \in 1..(n + m), NEW j \in 1..(n + m), u[i] = u[j] PROVE i = j
    BY <1>5 DEF Distinct
  <2>1. CASE i <= n /\ j <= n
    BY <1>2, <1>6, <2>1 DEF Distinct
  <2>2. CASE i <= n /\ ~(j <= n)
    <3>1. i \in DOMAIN s /\ m - (j - n) + 1 \in DOMAIN t /\ s[i] = t[m - (j - n) + 1]
      BY <1>2, <1>6, <2>2
    <3> QED
      BY <3>1 DEF Apart
  <2>3. CASE ~(i <= n) /\ j <= n
    <3>1. j \in DOMAIN s /\ m - (i - n) + 1 \in DOMAIN t /\ s[j] = t[m - (i - n) + 1]
      BY <1>2, <1>6, <2>3
    <3> QED
      BY <3>1 DEF Apart
  <2>4. CASE ~(i <= n) /\ ~(j <= n)
    <3>1. m - (i - n) + 1 = m - (j - n) + 1
      BY <1>2, <1>6, <2>4 DEF Distinct
    <3> QED
      BY <1>2, <3>1
  <2> QED
    BY <2>1, <2>2, <2>3, <2>4
<1>8. \A i \in DOMAIN u : (\E j \in DOMAIN s : u[i] = s[j]) \/ (\E j \in DOMAIN t : u[i] = t[j])
  BY <1>2, <1>5, <1>6
<1> QED
  BY <1>3, <1>7, <1>8 DEF u, v

\* The head of a queue.
LEMMA Cut ==
    ASSUME NEW T, NEW s \in Seq(T), NEW n \in 0..Len(s)
    PROVE  /\ SubSeq(s, 1, n) \in Seq(T) /\ Len(SubSeq(s, 1, n)) = n
           /\ \A i \in 1..n : SubSeq(s, 1, n)[i] = s[i]
  BY SubSeqProperties

\* The rest of a queue.
LEMMA Rest ==
    ASSUME NEW T, NEW s \in Seq(T), NEW n \in 0..Len(s)
    PROVE  /\ SubSeq(s, n + 1, Len(s)) \in Seq(T) /\ Len(SubSeq(s, n + 1, Len(s))) = Len(s) - n
           /\ \A i \in 1..(Len(s) - n) : SubSeq(s, n + 1, Len(s))[i] = s[n + i]
  BY SubSeqProperties

\* Blocks that are handed out leave it, and follow those a request has.
LEMMA Handed ==
    ASSUME NEW T, NEW s \in Seq(T), NEW t \in Seq(T), NEW n \in 0..Len(s),
           Distinct(s), Distinct(t), Apart(t, s)
    PROVE  LET rest == SubSeq(s, n + 1, Len(s))
               mine == t \o SubSeq(s, 1, n)
           IN  /\ rest \in Seq(T) /\ Distinct(rest) /\ mine \in Seq(T) /\ Distinct(mine) /\ Apart(mine, rest)
               /\ Len(mine) = Len(t) + n /\ \A i \in 1..Len(t) : mine[i] = t[i]
               /\ \A i \in DOMAIN rest : \E j \in DOMAIN s : rest[i] = s[j]
               /\ \A i \in DOMAIN mine : \/ i \in DOMAIN t /\ mine[i] = t[i]
                                         \/ \E j \in DOMAIN s : mine[i] = s[j]
<1> DEFINE k    == Len(s)
           m    == Len(t)
           rest == SubSeq(s, n + 1, k)
           new  == SubSeq(s, 1, n)
           mine == t \o new
<1>1. k \in Nat /\ m \in Nat /\ n \in Nat /\ n <= k /\ DOMAIN s = 1..k /\ DOMAIN t = 1..m
  OBVIOUS
<1>2. \A i \in 1..k : s[i] \in T
  BY ElementOfSeq
<1>3. new \in Seq(T) /\ Len(new) = n /\ \A i \in 1..n : new[i] = s[i]
  BY <1>1, Cut
<1>4. rest \in Seq(T) /\ Len(rest) = k - n /\ \A i \in 1..(k - n) : rest[i] = s[n + i]
  BY <1>1, Rest
<1> HIDE DEF new, rest
<1>5. mine \in Seq(T) /\ Len(mine) = m + n
  BY <1>3, ConcatProperties
<1>6. \A i \in 1..(m + n) : mine[i] = IF i <= m THEN t[i] ELSE new[i - m]
  BY <1>3, ConcatProperties
<1>7. DOMAIN mine = 1..(m + n) /\ DOMAIN rest = 1..(k - n)
  BY <1>4, <1>5
<1> HIDE DEF mine, k, m
<1>8. ASSUME NEW i \in 1..(m + n)
      PROVE  /\ i <= m => i \in 1..m /\ mine[i] = t[i]
             /\ ~(i <= m) => i - m \in 1..n /\ i - m \in 1..k /\ mine[i] = s[i - m]
  BY <1>1, <1>3, <1>6
<1>9. ASSUME NEW i \in 1..(k - n) PROVE n + i \in 1..k /\ rest[i] = s[n + i]
  <2>1. n + i \in 1..k
    BY <1>1
  <2> QED
    BY <1>4, <2>1
<1>10. Distinct(rest)
  BY <1>1, <1>7, <1>9 DEF Distinct
<1>11. Distinct(mine)
  <2> SUFFICES ASSUME NEW i \in 1..(m + n), NEW j \in 1..(m + n), mine[i] = mine[j] PROVE i = j
    BY <1>7 DEF Distinct
  <2>1. CASE i <= m /\ j <= m
    BY <1>1, <1>8, <2>1 DEF Distinct
  <2>2. CASE i <= m /\ ~(j <= m)
    BY <1>1, <1>8, <2>2 DEF Apart
  <2>3. CASE ~(i <= m) /\ j <= m
    BY <1>1, <1>8, <2>3 DEF Apart
  <2>4. CASE ~(i <= m) /\ ~(j <= m)
    <3>1. i - m = j - m
      BY <1>1, <1>8, <2>4 DEF Distinct
    <3> QED
      BY <1>1, <3>1
  <2> QED
    BY <2>1, <2>2, <2>3, <2>4
<1>12. Apart(mine, rest)
  <2> SUFFICES ASSUME NEW i \in 1..(m + n), NEW j \in 1..(k - n), mine[i] = rest[j] PROVE FALSE
    BY <1>7 DEF Apart
  <2>1. n + j \in 1..k /\ mine[i] = s[n + j]
    BY <1>9
  <2>2. CASE i <= m
    BY <1>1, <1>8, <2>1, <2>2 DEF Apart
  <2>3. CASE ~(i <= m)
    <3>1. i - m = n + j /\ i - m \in 1..n
      BY <1>1, <1>8, <2>1, <2>3 DEF Distinct
    <3> QED
      BY <1>1, <3>1
  <2> QED
    BY <2>2, <2>3
<1>13. /\ \A i \in 1..m : mine[i] = t[i]
       /\ \A i \in DOMAIN rest : \E j \in DOMAIN s : rest[i] = s[j]
       /\ \A i \in DOMAIN mine : (i \in DOMAIN t /\ mine[i] = t[i]) \/ \E j \in DOMAIN s : mine[i] = s[j]
  <2>1. \A i \in 1..m : i \in 1..(m + n) /\ i <= m
    BY <1>1
  <2> QED
    BY <1>1, <1>7, <1>8, <1>9, <2>1
<1> QED
  BY <1>4, <1>5, <1>10, <1>11, <1>12, <1>13 DEF rest, mine, new, k, m

(***************************************************************************)
(* The scheduler takes blocks back, early or at a request's end.           *)
(***************************************************************************)

\* Blocks that are taken back are nobody's until they are handed out.
LEMMA Released ==
    ASSUME Inv, phase = "idle", phase' = "idle", NEW r \in Running, scheduled[r] = 0,
           row' = [row EXCEPT ![r] = 0], blocks' = [blocks EXCEPT ![r] = <<>>],
           free' = free \o Reverse(blocks[r]),
           \/ r \notin Unfinished /\ computed' = computed
           \/ computed' = [computed EXCEPT ![r] = 0],
           UNCHANGED <<layer, table, known, scheduled, left, memory>>
    PROVE  Inv'
<1>1. r \in Requests /\ \A s \in Requests : blocks[s] \in Seq(Blocks)
  BY Types DEF Inv, Running
<1>2. /\ \A s \in Requests \ {r} : row'[s] = row[s] /\ blocks'[s] = blocks[s] /\ computed'[s] = computed[s]
      /\ row'[r] = 0 /\ blocks'[r] = <<>> /\ computed'[r] \in Nat /\ computed'[r] <= computed[r]
      /\ r \in Unfinished' => computed'[r] = 0
  <2>1. computed \in [Requests -> Nat] /\ row \in [Requests -> 0..MaxNumSeqs] /\ blocks \in [Requests -> Seq(Blocks)]
    BY Zenon DEF Inv, TypeInv
  <2>2. computed' = computed => (r \in Unfinished' <=> r \in Unfinished)
    BY DEF Unfinished
  <2> QED
    BY <1>1, <2>1, <2>2
<1>3. free \in Seq(Blocks) /\ Distinct(free) /\ Distinct(blocks[r]) /\ Apart(blocks[r], free)
  BY <1>1 DEF Inv, TypeInv, BlocksInv
<1>4. /\ free' \in Seq(Blocks) /\ Distinct(free')
      /\ \A i \in DOMAIN free' : \/ \E j \in DOMAIN free : free'[i] = free[j]
                                 \/ \E j \in DOMAIN blocks[r] : free'[i] = blocks[r][j]
  <2> DEFINE t == blocks[r]
  <2>1. t \in Seq(Blocks) /\ Distinct(t) /\ Apart(t, free) /\ free' = free \o Reverse(t)
    BY <1>1, <1>3
  <2> HIDE DEF t
  <2>2. /\ free' \in Seq(Blocks) /\ Distinct(free')
        /\ \A i \in DOMAIN free' : \/ \E j \in DOMAIN free : free'[i] = free[j]
                                   \/ \E j \in DOMAIN t : free'[i] = t[j]
    BY <1>3, <2>1, Queued
  <2> QED
    BY <2>2 DEF t
<1>5. TypeInv'
  <2>1. /\ computed \in [Requests -> Nat] /\ row \in [Requests -> 0..MaxNumSeqs]
        /\ blocks \in [Requests -> Seq(Blocks)] /\ MaxNumSeqs \in Nat
    BY StepAssumption, Zenon DEF Inv, TypeInv
  <2>2. computed' \in [Requests -> Nat] /\ row' \in [Requests -> 0..MaxNumSeqs]
    BY <1>1, <2>1
  <2>3. blocks' \in [Requests -> Seq(Blocks)]
    BY <1>1, <2>1, EmptySeq
  <2>4. /\ layer' \in Layers /\ table' \in [Rows -> [0..(Width - 1) -> 0..(NumBlocks - 1)]]
        /\ known' \in [Requests -> Nat] /\ scheduled' \in [Requests -> 0..Budget] /\ left' \in 0..Budget
    BY DEF Inv, TypeInv
  <2> QED
    BY <1>4, <2>2, <2>3, <2>4, Zenon DEF TypeInv
<1>6. BlocksInv'
  <2>1. DOMAIN blocks'[r] = {}
    BY <1>2
  <2>2. \A s \in Requests : Distinct(blocks'[s])
    BY <1>2, <2>1 DEF Inv, BlocksInv, Distinct
  <2>3. ASSUME NEW s \in Requests PROVE Apart(blocks'[s], free')
    <3>1. CASE s = r
      BY <2>1, <3>1 DEF Apart
    <3>2. CASE s # r
      <4>1. Apart(blocks[s], free) /\ Apart(blocks[s], blocks[r])
        BY <1>1, <3>2 DEF Inv, BlocksInv
      <4> QED
        BY <1>2, <1>4, <3>2, <4>1 DEF Apart
    <3> QED
      BY <3>1, <3>2
  <2>4. ASSUME NEW s \in Requests, NEW q \in Requests, s # q PROVE Apart(blocks'[s], blocks'[q])
    <3>1. CASE s = r \/ q = r
      BY <2>1, <3>1 DEF Apart
    <3>2. CASE s # r /\ q # r
      BY <1>2, <2>4, <3>2 DEF Inv, BlocksInv
    <3> QED
      BY <3>1, <3>2
  <2> QED
    BY <1>4, <2>2, <2>3, <2>4 DEF BlocksInv
<1>7. Running' = Running \ {r} /\ Batch' = Batch /\ r \notin Batch /\ BatchTokens' = BatchTokens
  <2>1. Running' = Running \ {r}
    BY <1>1, <1>2 DEF Running
  <2> QED
    BY <2>1 DEF Batch, BatchTokens
<1>8. \A s \in Requests \ {r} : (s \in Unfinished' <=> s \in Unfinished) /\ Reach(s)' = Reach(s)
  BY <1>2 DEF Unfinished, Reach
<1>9. RowsInv'
  <2>1. ASSUME NEW s \in Requests \ Running'
        PROVE  blocks'[s] = <<>> /\ scheduled'[s] = 0 /\ (s \in Unfinished' => computed'[s] = 0)
    <3>1. CASE s = r
      BY <1>2, <3>1
    <3>2. CASE s # r
      <4>1. s \in Requests \ Running
        BY <1>7, <3>2
      <4>2. blocks[s] = <<>> /\ scheduled[s] = 0 /\ (s \in Unfinished => computed[s] = 0)
        BY <4>1 DEF Inv, RowsInv
      <4> QED
        BY <1>2, <1>8, <3>2, <4>2
    <3> QED
      BY <3>1, <3>2
  <2>2. /\ Batch \subseteq Unfinished /\ Batch \subseteq Requests
        /\ \A s, q \in Running : row[s] = row[q] => s = q
        /\ \A s \in Running : \A c \in 0..(Width - 1) :
              c < Len(blocks[s]) => table[row[s]][c] = blocks[s][c + 1]
    BY DEF Inv, RowsInv, Batch
  <2>3. Batch' \subseteq Unfinished'
    BY <1>7, <1>8, <2>2
  <2>4. \A s \in Running' : s \in Running /\ row'[s] = row[s] /\ blocks'[s] = blocks[s]
    BY <1>2, <1>7 DEF Running
  <2> QED
    BY <2>1, <2>2, <2>3, <2>4 DEF RowsInv
<1>10. RoomInv'
  <2>1. ASSUME NEW s \in Requests PROVE Reach(s)' <= known[s] /\ known[s] <= Length[s]
    <3>1. Reach(s) <= known[s] /\ known[s] <= Length[s] /\ known[s] \in Nat /\ computed[s] \in Nat
          /\ Reach(s) = computed[s] + scheduled[s] /\ scheduled[s] \in Nat
      BY Types DEF Inv, RoomInv, Reach
    <3>2. s = r => Reach(s)' = computed'[r]
      BY <1>2 DEF Reach
    <3> QED
      BY <1>2, <1>8, <3>1, <3>2
  <2>2. \A s \in Running' : /\ Reach(s)' = Reach(s) /\ blocks'[s] = blocks[s] /\ s \in Running
    BY <1>2, <1>7, <1>8 DEF Running
  <2>3. \A s \in Running : Reach(s) <= Len(blocks[s]) * BlockSize
    BY Zenon DEF Inv, RoomInv
  <2> QED
    BY <2>1, <2>2, <2>3 DEF RoomInv
<1>11. BudgetInv'
  BY <1>7 DEF Inv, BudgetInv
<1>12. SlotsInv'
  BY DEF SlotsInv
<1>13. CacheInv'
  <2> SUFFICES ASSUME NEW s \in Running', NEW p \in 0..(Stored(s)' - 1), NEW h \in 0..(layer.heads - 1)
               PROVE  Held(s, p, h)' = {<<s, p, h>>}
    BY DEF CacheInv
  <2>1. s \in Running /\ blocks'[s] = blocks[s] /\ computed'[s] = computed[s]
    BY <1>2, <1>7 DEF Running
  <2>2. Stored(s)' = Stored(s)
    BY <2>1 DEF Stored
  <2>3. Held(s, p, h) = {<<s, p, h>>}
    <3>1. s \in Running /\ p \in 0..(Stored(s) - 1)
      BY <2>1, <2>2
    <3> QED
      BY <3>1 DEF Inv, CacheInv
  <2> QED
    BY <2>1, <2>3 DEF Held
<1> QED
  BY <1>5, <1>6, <1>9, <1>10, <1>11, <1>12, <1>13 DEF Inv

\* A request that is preempted starts again from its first token.
LEMMA PreemptKeeps == ASSUME Inv, NEW r \in Requests, Preempt(r) PROVE Inv'
<1>1. /\ phase = "idle" /\ r \in Running /\ r \notin Batch /\ scheduled[r] \in Nat
      /\ row' = [row EXCEPT ![r] = 0] /\ blocks' = [blocks EXCEPT ![r] = <<>>]
      /\ free' = free \o Reverse(blocks[r]) /\ computed' = [computed EXCEPT ![r] = 0]
      /\ UNCHANGED <<layer, table, known, scheduled, left, memory, phase>>
  BY Types DEF Preempt, plan, Inv
<1>2. scheduled[r] = 0
  BY <1>1 DEF Batch
<1>3. phase' = "idle" /\ UNCHANGED <<layer, table, known, scheduled, left, memory>>
  BY <1>1
<1> QED
  BY <1>1, <1>2, <1>3, Released, Zenon

\* A request that ends leaves its cells as they are.
LEMMA FinishKeeps == ASSUME Inv, NEW r \in Requests, Finish(r) PROVE Inv'
<1>1. /\ phase = "idle" /\ r \in Running \ Unfinished /\ scheduled[r] \in Nat
      /\ row' = [row EXCEPT ![r] = 0] /\ blocks' = [blocks EXCEPT ![r] = <<>>]
      /\ free' = free \o Reverse(blocks[r])
      /\ UNCHANGED <<layer, table, known, computed, scheduled, left, memory, phase>>
  BY Types DEF Finish, plan, request, Inv
<1>2. r \notin Batch
  BY <1>1 DEF Inv, RowsInv
<1>3. scheduled[r] = 0
  BY <1>1, <1>2 DEF Batch
<1>4. phase' = "idle" /\ computed' = computed /\ UNCHANGED <<layer, table, known, scheduled, left, memory>>
  BY <1>1
<1> QED
  BY <1>1, <1>3, <1>4, Released, Zenon

\* At first all blocks are free and nothing is computed.
LEMMA InitInv == Init => Inv
<1> SUFFICES ASSUME Init PROVE Inv
  OBVIOUS
<1>1. /\ BlockSize \in Nat \ {0} /\ NumBlocks \in Nat \ {0} /\ Budget \in Nat /\ MaxNumSeqs \in Nat
  BY KernelAssumption, StepAssumption
<1>2. /\ layer \in Layers /\ phase = "idle" /\ left = Budget
      /\ \A r \in Requests : row[r] = 0 /\ blocks[r] = <<>> /\ computed[r] = 0 /\ scheduled[r] = 0 /\ known[r] = Prompt[r]
  BY DEF Init
<1>3. free \in Seq(Blocks) /\ Len(free) = NumBlocks - 1 /\ \A i \in 1..(NumBlocks - 1) : free[i] = i
  <2>1. free \in [1..(NumBlocks - 1) -> Blocks] /\ NumBlocks - 1 \in Nat
    BY <1>1 DEF Init, Blocks
  <2> QED
    BY <2>1 DEF Init
<1>4. TypeInv
  <2>1. /\ row \in [Requests -> 0..MaxNumSeqs] /\ computed \in [Requests -> Nat] /\ known \in [Requests -> Nat]
        /\ scheduled \in [Requests -> 0..Budget]
    BY <1>1, StepAssumption DEF Init
  <2>2. blocks \in [Requests -> Seq(Blocks)]
    BY EmptySeq DEF Init
  <2>3. table \in [Rows -> [0..(Width - 1) -> 0..(NumBlocks - 1)]]
    BY <1>1 DEF Init
  <2>4. left \in 0..Budget
    BY <1>1, <1>2
  <2> QED
    BY <1>2, <1>3, <2>1, <2>2, <2>3, <2>4, Zenon DEF TypeInv
<1>5. BlocksInv
  BY <1>2, <1>3 DEF BlocksInv, Distinct, Apart
<1>6. Running = {} /\ Batch = {} /\ BatchTokens = {}
  BY <1>2 DEF Running, Batch, BatchTokens
<1>7. RowsInv
  BY <1>2, <1>6 DEF RowsInv
<1>8. RoomInv
  <2>1. ASSUME NEW r \in Requests PROVE Reach(r) = 0 /\ Prompt[r] \in Nat /\ Length[r] \in Nat /\ Prompt[r] < Length[r]
    BY <1>2, StepAssumption DEF Reach
  <2> QED
    BY <1>2, <1>6, <2>1 DEF RoomInv
<1>9. BudgetInv
  BY <1>1, <1>2, <1>6, FS_EmptySet DEF BudgetInv
<1>10. SlotsInv /\ CacheInv
  BY <1>2, <1>6 DEF SlotsInv, CacheInv
<1> QED
  BY <1>4, <1>5, <1>7, <1>8, <1>9, <1>10 DEF Inv

(***************************************************************************)
(* The scheduler gives a request tokens, blocks and, if need be, a row.    *)
(***************************************************************************)

\* More blocks have more room.
LEMMA MoreIsEnough ==
    ASSUME NEW a \in Nat, NEW b \in Nat, NEW d \in Nat, a <= b PROVE a * d <= b * d
<1>1. PICK e \in Nat : b = a + e
  <2>1. b - a \in Nat /\ b = a + (b - a)
    OBVIOUS
  <2> QED
    BY <2>1
<1>2. b * d = a * d + e * d /\ e * d \in Nat /\ a * d \in Nat
  BY <1>1
<1> QED
  BY <1>2

\* The chunk a request gets is within the budget and has blocks.
LEMMA ChunkFits ==
    ASSUME Inv, NEW r \in Requests \ Batch, NEW n \in Chunks(r)
    PROVE  /\ n \in 1..left /\ computed[r] + n <= known[r] /\ Lacks(r, n) \in Nat
           /\ computed[r] + n <= (Len(blocks[r]) + Lacks(r, n)) * BlockSize
<1>1. /\ computed[r] \in Nat /\ known[r] \in Nat /\ scheduled[r] \in Nat /\ left \in Nat
      /\ Len(blocks[r]) \in Nat /\ BlockSize \in Nat \ {0}
  BY Types DEF Inv
<1>2. scheduled[r] = 0 /\ computed[r] <= known[r]
  BY <1>1 DEF Batch, Inv, RoomInv, Reach
<1>3. PICK c \in ChunkSizes : n = Smaller(Smaller(c, known[r] - computed[r]), left)
  BY DEF Chunks
<1>4. c \in Nat /\ n # 0
  BY StepAssumption DEF Chunks
<1>5. n \in 1..left /\ computed[r] + n <= known[r]
  BY <1>1, <1>2, <1>3, <1>4 DEF Smaller
<1> DEFINE x == CeilDiv(computed[r] + n, BlockSize)
           k == Lacks(r, n)
           m == Len(blocks[r])
           y == m + k
<1>6. computed[r] + n \in Nat
  BY <1>1, <1>5
<1>7. x \in Nat /\ computed[r] + n <= x * BlockSize
  BY <1>1, <1>6, CeilingCovers
<1>8. k = (IF 0 <= x - m THEN x - m ELSE 0) /\ m \in Nat
  BY <1>1 DEF Lacks, Larger
<1> HIDE DEF x, k, m
<1>9. k \in Nat /\ y \in Nat /\ x <= y
  BY <1>7, <1>8
<1>10. x * BlockSize <= y * BlockSize
  BY <1>1, <1>7, <1>9, MoreIsEnough
<1>11. x * BlockSize \in Nat /\ y * BlockSize \in Nat
  BY <1>1, <1>7, <1>9
<1>12. computed[r] + n <= y * BlockSize
  BY <1>6, <1>7, <1>10, <1>11
<1> QED
  BY <1>5, <1>9, <1>12 DEF y, k, m

\* A request's chunk adds its length to the step.
LEMMA PairsAdd ==
    ASSUME NEW S, IsFiniteSet(S), NEW x, NEW n \in Nat, S \cap ({x} \X (1..n)) = {}
    PROVE  /\ IsFiniteSet(S \cup ({x} \X (1..n)))
           /\ Cardinality(S \cup ({x} \X (1..n))) = Cardinality(S) + n
<1> DEFINE new == {x} \X (1..n)
<1>1. IsFiniteSet(1..n) /\ Cardinality(1..n) = n
  <2>1. 1 \in Int /\ n \in Int
    OBVIOUS
  <2>2. IsFiniteSet(1..n) /\ Cardinality(1..n) = IF 1 > n THEN 0 ELSE n - 1 + 1
    BY <2>1, FS_Interval, Zenon
  <2> QED
    BY <2>2
<1>2. IsFiniteSet({x}) /\ Cardinality({x}) = 1
  BY FS_Singleton, Zenon
<1>3. IsFiniteSet(new) /\ Cardinality(new) = Cardinality({x}) * Cardinality(1..n)
  BY <1>1, <1>2, FS_Product, Zenon
<1>4. Cardinality(new) = n
  BY <1>1, <1>2, <1>3
<1>5. S \cap new = {} /\ Cardinality(S) \in Nat
  BY FS_CardinalityType
<1> HIDE DEF new
<1>6. /\ IsFiniteSet(S \cup new)
      /\ Cardinality(S \cup new) = Cardinality(S) + Cardinality(new) - Cardinality(S \cap new)
  BY <1>3, FS_Union
<1>7. Cardinality(S \cap new) = 0
  BY <1>5, FS_EmptySet, Zenon
<1> QED
  BY <1>4, <1>5, <1>6, <1>7 DEF new

\* A step has finitely many tokens.
LEMMA TokensAreFinite == IsFiniteSet(BatchTokens)
<1>1. IsFiniteSet(1..Budget)
  BY StepAssumption, FS_Interval
<1>2. IsFiniteSet(Requests \X (1..Budget))
  BY <1>1, StepAssumption, FS_Product
<1>3. BatchTokens \in SUBSET (Requests \X (1..Budget))
  BY DEF BatchTokens
<1> QED
  BY <1>2, <1>3, FS_Subset

\* Scheduling one more request disturbs none that is planned already.
LEMMA ScheduleKeeps == ASSUME Inv, NEW r \in Requests, Schedule(r) PROVE Inv'
<1>1. /\ phase = "idle" /\ phase' = "idle" /\ r \in Unfinished /\ r \notin Batch
      /\ UNCHANGED <<layer, computed, known, memory>>
  BY DEF Schedule, request
<1>2. PICK n \in Chunks(r), i \in Rows :
        /\ Lacks(r, n) <= Len(free) /\ MayHave(r, i)
        /\ LET mine == blocks[r] \o SubSeq(free, 1, Lacks(r, n))
           IN  /\ blocks' = [blocks EXCEPT ![r] = mine]
               /\ table' = [table EXCEPT ![i] =
                      [c \in 0..(Width - 1) |-> IF c < Len(mine) THEN mine[c + 1] ELSE @[c]]]
        /\ free' = SubSeq(free, Lacks(r, n) + 1, Len(free))
        /\ row' = [row EXCEPT ![r] = i]
        /\ scheduled' = [scheduled EXCEPT ![r] = n] /\ left' = left - n
  BY Zenon DEF Schedule
<1> DEFINE k    == Lacks(r, n)
           mine == blocks[r] \o SubSeq(free, 1, k)
<1>3. n \in 1..left /\ computed[r] + n <= known[r] /\ k \in Nat
      /\ computed[r] + n <= (Len(blocks[r]) + k) * BlockSize
  BY <1>1, ChunkFits
<1>4. /\ computed[r] \in Nat /\ known[r] \in Nat /\ scheduled[r] = 0 /\ left \in 0..Budget /\ Budget \in Nat
      /\ blocks[r] \in Seq(Blocks) /\ Len(blocks[r]) \in Nat /\ DOMAIN blocks[r] = 1..Len(blocks[r])
      /\ BlockSize \in Nat \ {0} /\ NumBlocks \in Nat \ {0}
  BY <1>1, Types DEF Inv, Batch
<1>5. free \in Seq(Blocks) /\ Distinct(free) /\ Distinct(blocks[r]) /\ Apart(blocks[r], free) /\ k \in 0..Len(free)
  BY <1>2, <1>3 DEF Inv, TypeInv, BlocksInv
<1>6. /\ free' \in Seq(Blocks) /\ Distinct(free') /\ mine \in Seq(Blocks) /\ Distinct(mine)
      /\ Apart(mine, free') /\ Len(mine) = Len(blocks[r]) + k /\ \A j \in 1..Len(blocks[r]) : mine[j] = blocks[r][j]
      /\ \A j \in DOMAIN free' : \E m \in DOMAIN free : free'[j] = free[m]
      /\ \A j \in DOMAIN mine : \/ j \in DOMAIN blocks[r] /\ mine[j] = blocks[r][j]
                                \/ \E m \in DOMAIN free : mine[j] = free[m]
  <2> DEFINE t == blocks[r]
  <2>1. t \in Seq(Blocks) /\ Distinct(t) /\ Apart(t, free) /\ k \in 0..Len(free)
        /\ free' = SubSeq(free, k + 1, Len(free)) /\ mine = t \o SubSeq(free, 1, k)
    BY <1>2, <1>4, <1>5
  <2> HIDE DEF t, k, mine
  <2>2. /\ free' \in Seq(Blocks) /\ Distinct(free') /\ mine \in Seq(Blocks) /\ Distinct(mine)
        /\ Apart(mine, free') /\ Len(mine) = Len(t) + k /\ \A j \in 1..Len(t) : mine[j] = t[j]
        /\ \A j \in DOMAIN free' : \E m \in DOMAIN free : free'[j] = free[m]
        /\ \A j \in DOMAIN mine : \/ j \in DOMAIN t /\ mine[j] = t[j]
                                  \/ \E m \in DOMAIN free : mine[j] = free[m]
    BY <1>5, <2>1, Handed
  <2> QED
    BY <2>2 DEF t
<1>7. /\ blocks' = [blocks EXCEPT ![r] = mine] /\ row' = [row EXCEPT ![r] = i]
      /\ scheduled' = [scheduled EXCEPT ![r] = n] /\ left' = left - n /\ MayHave(r, i)
      /\ table' = [table EXCEPT ![i] =
             [c \in 0..(Width - 1) |-> IF c < Len(mine) THEN mine[c + 1] ELSE table[i][c]]]
  BY <1>2
<1> HIDE DEF mine, k
<1>8. /\ row \in [Requests -> 0..MaxNumSeqs] /\ blocks \in [Requests -> Seq(Blocks)]
      /\ scheduled \in [Requests -> 0..Budget] /\ MaxNumSeqs \in Nat
      /\ table \in [Rows -> [0..(Width - 1) -> 0..(NumBlocks - 1)]]
  BY StepAssumption, Zenon DEF Inv, TypeInv
<1>9. /\ blocks'[r] = mine /\ row'[r] = i /\ scheduled'[r] = n /\ i \in 1..MaxNumSeqs
      /\ \A s \in Requests \ {r} : blocks'[s] = blocks[s] /\ row'[s] = row[s] /\ scheduled'[s] = scheduled[s]
      /\ \A c \in 0..(Width - 1) : table'[i][c] = IF c < Len(mine) THEN mine[c + 1] ELSE table[i][c]
      /\ \A j \in Rows \ {i} : table'[j] = table[j]
  BY <1>7, <1>8 DEF Rows
<1>10. TypeInv'
  <2>1. row' \in [Requests -> 0..MaxNumSeqs]
    BY <1>7, <1>8, <1>9
  <2>2. blocks' \in [Requests -> Seq(Blocks)]
    BY <1>6, <1>7, <1>8
  <2>3. scheduled' \in [Requests -> 0..Budget] /\ left' \in 0..Budget
    BY <1>3, <1>4, <1>7, <1>8
  <2>4. table' \in [Rows -> [0..(Width - 1) -> 0..(NumBlocks - 1)]]
    <3> DEFINE new == [c \in 0..(Width - 1) |-> IF c < Len(mine) THEN mine[c + 1] ELSE table[i][c]]
    <3>1. ASSUME NEW c \in 0..(Width - 1), c < Len(mine) PROVE mine[c + 1] \in 0..(NumBlocks - 1)
      <4>1. c + 1 \in 1..Len(mine)
        BY <1>3, <1>4, <1>6, <3>1
      <4>2. mine[c + 1] \in Blocks
        BY <1>6, <4>1, ElementOfSeq
      <4> QED
        BY <1>4, <4>2 DEF Blocks
    <3>2. new \in [0..(Width - 1) -> 0..(NumBlocks - 1)]
      BY <1>8, <3>1
    <3>3. table' = [table EXCEPT ![i] = new]
      BY <1>7
    <3> HIDE DEF new
    <3> QED
      BY <1>8, <3>2, <3>3
  <2>5. layer' \in Layers /\ computed' \in [Requests -> Nat] /\ known' \in [Requests -> Nat]
    BY <1>1 DEF Inv, TypeInv
  <2> QED
    BY <1>1, <1>6, <2>1, <2>2, <2>3, <2>4, <2>5 DEF TypeInv
<1>11. BlocksInv'
  <2>1. \A s \in Requests : Distinct(blocks'[s])
    BY <1>6, <1>9 DEF Inv, BlocksInv
  <2>2. ASSUME NEW s \in Requests PROVE Apart(blocks'[s], free')
    <3>1. CASE s = r
      BY <1>6, <1>9, <3>1
    <3>2. CASE s # r
      <4>1. Apart(blocks[s], free)
        BY DEF Inv, BlocksInv
      <4> QED
        BY <1>6, <1>9, <3>2, <4>1 DEF Apart
    <3> QED
      BY <3>1, <3>2
  <2>3. ASSUME NEW s \in Requests, s # r PROVE Apart(blocks[s], mine) /\ Apart(mine, blocks[s])
    <3>1. Apart(blocks[s], free) /\ Apart(blocks[s], blocks[r])
      BY <2>3 DEF Inv, BlocksInv
    <3> QED
      BY <1>6, <3>1 DEF Apart
  <2>4. ASSUME NEW s \in Requests, NEW q \in Requests, s # q PROVE Apart(blocks'[s], blocks'[q])
    <3>1. CASE s = r \/ q = r
      BY <1>9, <2>3, <2>4, <3>1
    <3>2. CASE s # r /\ q # r
      BY <1>9, <2>4, <3>2 DEF Inv, BlocksInv
    <3> QED
      BY <3>1, <3>2
  <2> QED
    BY <1>6, <2>1, <2>2, <2>4 DEF BlocksInv
<1>12. Running' = Running \cup {r} /\ Batch' = Batch \cup {r} /\ Unfinished' = Unfinished
  <2>1. Running' = Running \cup {r}
    BY <1>9 DEF Running
  <2>2. Batch' = Batch \cup {r}
    BY <1>3, <1>4, <1>9 DEF Batch
  <2> QED
    BY <1>1, <2>1, <2>2 DEF Unfinished
<1>13. ASSUME NEW s \in Running, s # r PROVE row[s] # i /\ row[s] \in Rows /\ s \in Requests
  <2>1. s \in Requests /\ row[s] \in 1..MaxNumSeqs
    BY <1>8 DEF Running
  <2>2. row[s] # i
    <3>1. CASE r \in Running
      BY <1>7, <1>13, <3>1 DEF MayHave, Inv, RowsInv
    <3>2. CASE r \notin Running
      BY <1>7, <2>1, <3>2 DEF MayHave
    <3> QED
      BY <3>1, <3>2
  <2> QED
    BY <2>1, <2>2 DEF Rows
<1>14. RowsInv'
  <2>1. ASSUME NEW s \in Requests \ Running'
        PROVE  blocks'[s] = <<>> /\ scheduled'[s] = 0 /\ (s \in Unfinished' => computed'[s] = 0)
    <3>1. s \in Requests \ Running /\ s # r
      BY <1>12
    <3>2. blocks[s] = <<>> /\ scheduled[s] = 0 /\ (s \in Unfinished => computed[s] = 0)
      BY <3>1 DEF Inv, RowsInv
    <3> QED
      BY <1>1, <1>9, <1>12, <3>1, <3>2
  <2>2. Batch' \subseteq Unfinished'
    BY <1>1, <1>12 DEF Inv, RowsInv
  <2>3. ASSUME NEW s \in Running', NEW q \in Running', row'[s] = row'[q] PROVE s = q
    <3>1. CASE s = r /\ q = r
      BY <3>1
    <3>2. CASE s = r /\ q # r
      BY <1>9, <1>12, <1>13, <2>3, <3>2
    <3>3. CASE s # r /\ q = r
      BY <1>9, <1>12, <1>13, <2>3, <3>3
    <3>4. CASE s # r /\ q # r
      <4>1. s \in Running /\ q \in Running /\ row[s] = row[q]
        BY <1>9, <1>12, <1>13, <2>3, <3>4
      <4> QED
        BY <4>1 DEF Inv, RowsInv
    <3> QED
      BY <3>1, <3>2, <3>3, <3>4
  <2>4. ASSUME NEW s \in Running', NEW c \in 0..(Width - 1), c < Len(blocks'[s])
        PROVE  table'[row'[s]][c] = blocks'[s][c + 1]
    <3>1. CASE s = r
      BY <1>9, <2>4, <3>1
    <3>2. CASE s # r
      <4>1. s \in Running /\ row'[s] = row[s] /\ blocks'[s] = blocks[s] /\ row[s] \in Rows \ {i}
        BY <1>9, <1>12, <1>13, <3>2
      <4>2. table[row[s]][c] = blocks[s][c + 1]
        BY <2>4, <4>1 DEF Inv, RowsInv
      <4> QED
        BY <1>9, <4>1, <4>2
    <3> QED
      BY <3>1, <3>2
  <2> QED
    BY <2>1, <2>2, <2>3, <2>4 DEF RowsInv
<1>15. Reach(r)' = computed[r] + n /\ \A s \in Requests \ {r} : Reach(s)' = Reach(s)
  BY <1>1, <1>9 DEF Reach
<1>16. RoomInv'
  <2>1. \A s \in Requests : Reach(s) <= known[s] /\ known[s] <= Length[s]
    BY DEF Inv, RoomInv
  <2>2. \A s \in Running : s \in Requests /\ Reach(s) <= Len(blocks[s]) * BlockSize
    BY DEF Inv, RoomInv, Running
  <2>3. \A s \in Requests : Reach(s)' <= known[s]
    BY <1>3, <1>15, <2>1
  <2>4. \A s \in Running' : Reach(s)' <= Len(blocks'[s]) * BlockSize
    <3>1. Reach(r)' <= Len(blocks'[r]) * BlockSize
      BY <1>3, <1>6, <1>9, <1>15, Zenon
    <3>2. \A s \in Running \ {r} : Reach(s)' <= Len(blocks'[s]) * BlockSize
      BY <1>9, <1>15, <2>2, Zenon
    <3> QED
      BY <1>12, <3>1, <3>2
  <2> QED
    BY <1>1, <2>1, <2>3, <2>4 DEF RoomInv
<1>17. BudgetInv'
  <2> DEFINE new == {r} \X (1..n)
  <2>2. IsFiniteSet(BatchTokens) /\ n \in Nat
    BY <1>3, <1>4, TokensAreFinite
  <2>3. BatchTokens' = BatchTokens \cup new
    <3>1. \A s \in Requests, j \in 1..Budget :
             <<s, j>> \in BatchTokens' <=> <<s, j>> \in BatchTokens \/ <<s, j>> \in new
      BY <1>3, <1>4, <1>9 DEF BatchTokens
    <3>2. new \subseteq Requests \X (1..Budget)
      BY <1>3, <1>4
    <3> QED
      BY <3>1, <3>2 DEF BatchTokens
  <2>4. BatchTokens \cap new = {}
    BY <1>4 DEF BatchTokens
  <2>5. Cardinality(BatchTokens') = Cardinality(BatchTokens) + n
    BY <2>2, <2>3, <2>4, PairsAdd
  <2> QED
    BY <1>3, <1>4, <1>7, <2>5 DEF Inv, BudgetInv
<1>18. SlotsInv'
  BY <1>1 DEF SlotsInv
<1>19. CacheInv'
  <2> SUFFICES ASSUME NEW s \in Running', NEW p \in 0..(computed[s] - 1), NEW h \in 0..(layer.heads - 1)
               PROVE  Held(s, p, h)' = {<<s, p, h>>}
    BY <1>1 DEF CacheInv, Stored
  <2>1. s \in Running
    <3>1. CASE s # r
      BY <1>12, <3>1
    <3>2. CASE s = r
      BY <1>1, <1>4, <3>2 DEF Inv, RowsInv
    <3> QED
      BY <3>1, <3>2
  <2>2. s \in Requests /\ p \in 0..(Stored(s) - 1) /\ p \in 0..(Reach(s) - 1)
    <3>1. s \in Requests
      BY <2>1 DEF Running
    <3>2. Stored(s) = computed[s]
      BY <1>1 DEF Stored
    <3>3. computed[s] \in Nat /\ scheduled[s] \in Nat /\ Reach(s) = computed[s] + scheduled[s]
      BY <3>1, Types DEF Inv, Reach
    <3> QED
      BY <3>1, <3>2, <3>3
  <2>3. Held(s, p, h) = {<<s, p, h>>}
    BY <2>1, <2>2 DEF Inv, CacheInv
  <2>4. p \div BlockSize + 1 \in DOMAIN blocks[s]
    BY <2>1, <2>2, TokenHasBlock DEF Inv
  <2>5. blocks'[s][p \div BlockSize + 1] = blocks[s][p \div BlockSize + 1]
    <3> DEFINE j == p \div BlockSize + 1
    <3>1. j \in DOMAIN blocks[s]
      BY <2>4
    <3> HIDE DEF j
    <3>2. blocks'[s][j] = blocks[s][j]
      BY <1>4, <1>6, <1>9, <2>2, <3>1
    <3> QED
      BY <3>2 DEF j
  <2>6. Held(s, p, h)' = Held(s, p, h)
    BY <1>1, <2>5 DEF Held
  <2> QED
    BY <2>3, <2>6
<1> QED
  BY <1>10, <1>11, <1>14, <1>16, <1>17, <1>18, <1>19 DEF Inv

(***************************************************************************)
(* The tokens of a batch: each is at a place of its own, in order.         *)
(***************************************************************************)

\* A set of numbers has a least one.
LEMMA LeastIsIn ==
    ASSUME NEW S \in SUBSET Nat, S # {} PROVE \E n \in S : \A m \in S : n <= m
<1>1. PICK x \in S : \A y \in S : <<y, x>> \notin OpToRel(<, Nat)
  BY NatLessThanWellFounded, WFMin
<1>2. ASSUME NEW y \in S PROVE x <= y
  <2>1. <<y, x>> \in Nat \X Nat
    OBVIOUS
  <2>2. ~(y < x)
    BY <1>1, <2>1 DEF OpToRel
  <2> QED
    BY <2>2
<1> QED
  BY <1>2

\* An order of the batch names each of its requests once.
LEMMA OrderType ==
    ASSUME Inv, NEW order \in Orders
    PROVE  /\ Cardinality(Batch) \in Nat /\ Len(order) = Cardinality(Batch)
           /\ DOMAIN order = 1..Len(order) /\ \A i \in 1..Len(order) : order[i] \in Batch
           /\ \A r \in Batch : \E i \in 1..Len(order) : order[i] = r
           /\ \A i, j \in 1..Len(order) : order[i] = order[j] => i = j
<1> DEFINE n == Cardinality(Batch)
<1>1. n \in Nat
  <2>1. Batch \in SUBSET Requests
    BY DEF Batch
  <2> QED
    BY <2>1, StepAssumption, FS_Subset, FS_CardinalityType
<1>2. /\ order \in [1..n -> Batch] /\ \A r \in Batch : \E i \in DOMAIN order : order[i] = r
      /\ \A i, j \in DOMAIN order : i < j => Precedes(order[i], order[j])
  BY DEF Orders
<1> HIDE DEF n
<1>3. Len(order) = n /\ DOMAIN order = 1..n
  BY <1>1, <1>2
<1>4. ASSUME NEW i \in 1..n, NEW j \in 1..n, i < j PROVE order[i] # order[j]
  <2>1. order[i] \in Requests /\ row[order[i]] \in Nat
    <3>1. order[i] \in Requests
      BY <1>2 DEF Batch
    <3> QED
      BY <3>1, Types DEF Inv
  <2>2. Precedes(order[i], order[j])
    BY <1>2, <1>3, <1>4
  <2> QED
    BY <2>1, <2>2 DEF Precedes
<1>5. \A i, j \in 1..n : order[i] = order[j] => i = j
  <2> SUFFICES ASSUME NEW i \in 1..n, NEW j \in 1..n, i # j PROVE order[i] # order[j]
    OBVIOUS
  <2>1. i < j \/ j < i
    OBVIOUS
  <2> QED
    BY <1>4, <2>1
<1> QED
  BY <1>1, <1>2, <1>3, <1>5 DEF n

\* query_start_loc: each sequence begins where the one before ends, and the
\* last ends within the budget.
LEMMA Starts ==
    ASSUME Inv, NEW order \in Orders
    PROVE  /\ \A i \in 1..(Len(order) + 1) : Start(order, i) \in Nat
           /\ Start(order, 1) = 0 /\ Start(order, Len(order) + 1) <= Budget
           /\ \A i \in 1..Len(order) : Start(order, i + 1) = Start(order, i) + scheduled[order[i]]
           /\ \A i, j \in 1..(Len(order) + 1) : i <= j => Start(order, i) <= Start(order, j)
<1> DEFINE n == Len(order)
           B(i) == {e \in (1..(i - 1)) \X (1..Budget) : e[2] <= scheduled[order[e[1]]]}
<1>1. /\ n \in Nat /\ \A i \in 1..n : order[i] \in Batch
      /\ \A i, j \in 1..n : order[i] = order[j] => i = j
  BY OrderType
<1>2. Budget \in Nat /\ \A i \in 1..n : order[i] \in Requests /\ scheduled[order[i]] \in 0..Budget
  <2>1. \A i \in 1..n : order[i] \in Requests
    BY <1>1 DEF Batch
  <2> QED
    BY <2>1, Types, StepAssumption DEF Inv
<1>3. \A i : Start(order, i) = Cardinality(B(i))
  BY DEF Start
<1> HIDE DEF n
<1>4. ASSUME NEW i \in 1..(n + 1) PROVE IsFiniteSet(B(i)) /\ Start(order, i) \in Nat
  <2>1. i - 1 \in Int
    BY <1>1
  <2>2. IsFiniteSet((1..(i - 1)) \X (1..Budget))
    <3>1. IsFiniteSet(1..(i - 1)) /\ IsFiniteSet(1..Budget)
      BY <1>2, <2>1, FS_Interval
    <3> QED
      BY <3>1, FS_Product
  <2>3. B(i) \in SUBSET ((1..(i - 1)) \X (1..Budget))
    OBVIOUS
  <2>4. IsFiniteSet(B(i))
    BY <2>2, <2>3, FS_Subset
  <2> QED
    BY <1>3, <2>4, FS_CardinalityType
<1>5. Start(order, 1) = 0
  <2>1. B(1) = {}
    OBVIOUS
  <2> QED
    BY <1>3, <2>1, FS_EmptySet
<1>6. ASSUME NEW i \in 1..n PROVE Start(order, i + 1) = Start(order, i) + scheduled[order[i]]
  <2> DEFINE m == scheduled[order[i]]
  <2>1. m \in 0..Budget /\ m \in Nat /\ i \in 1..(n + 1)
    BY <1>1, <1>2
  <2>2. B(i + 1) = B(i) \cup ({i} \X (1..m))
    <3>1. ASSUME NEW j \in 1..i, NEW k \in 1..Budget
          PROVE  <<j, k>> \in B(i + 1) <=> <<j, k>> \in B(i) \/ <<j, k>> \in {i} \X (1..m)
      BY <1>1, <2>1
    <3>2. B(i + 1) \subseteq (1..i) \X (1..Budget) /\ B(i) \cup ({i} \X (1..m)) \subseteq (1..i) \X (1..Budget)
      BY <1>1, <1>2, <2>1
    <3> QED
      BY <3>1, <3>2
  <2>3. B(i) \cap ({i} \X (1..m)) = {}
    BY <1>1
  <2>4. IsFiniteSet(B(i))
    BY <1>4, <2>1
  <2> HIDE DEF B, m
  <2>5. Cardinality(B(i + 1)) = Cardinality(B(i)) + m
    BY <2>1, <2>2, <2>3, <2>4, PairsAdd
  <2> QED
    BY <1>3, <2>5 DEF m
<1>7. ASSUME NEW i \in 1..(n + 1), NEW j \in 1..(n + 1), i <= j PROVE Start(order, i) <= Start(order, j)
  <2>1. B(i) \in SUBSET B(j)
    BY <1>1, <1>7
  <2>2. IsFiniteSet(B(j))
    BY <1>4
  <2> HIDE DEF B
  <2> QED
    BY <1>3, <2>1, <2>2, FS_Subset
<1>8. Start(order, n + 1) <= Budget
  <2> DEFINE f == [t \in B(n + 1) |-> <<order[t[1]], t[2]>>]
  <2>1. n + 1 \in 1..(n + 1) /\ (n + 1) - 1 = n
    BY <1>1
  <2>2. ASSUME NEW t \in B(n + 1)
        PROVE  t = <<t[1], t[2]>> /\ t[1] \in 1..n /\ t[2] \in 1..Budget /\ f[t] = <<order[t[1]], t[2]>>
               /\ f[t] \in BatchTokens
    <3>1. t = <<t[1], t[2]>> /\ t[1] \in 1..n /\ t[2] \in 1..Budget /\ t[2] <= scheduled[order[t[1]]]
      BY <2>1
    <3>2. f[t] = <<order[t[1]], t[2]>>
      OBVIOUS
    <3> HIDE DEF f
    <3> QED
      BY <1>2, <3>1, <3>2 DEF BatchTokens
  <2>3. f \in [B(n + 1) -> BatchTokens]
    BY <2>2
  <2>4. ASSUME NEW t \in B(n + 1), NEW u \in B(n + 1), f[t] = f[u] PROVE t = u
    <3>1. order[t[1]] = order[u[1]] /\ t[2] = u[2]
      BY <2>2, <2>4
    <3>2. t[1] = u[1]
      BY <1>1, <2>2, <3>1
    <3> QED
      BY <2>2, <3>1, <3>2
  <2> HIDE DEF f, B
  <2>5. f \in Injection(B(n + 1), BatchTokens)
    BY <2>3, <2>4 DEF Injection, IsInjective
  <2>6. Cardinality(B(n + 1)) <= Cardinality(BatchTokens)
    BY <2>5, TokensAreFinite, FS_Injection
  <2>7. Cardinality(BatchTokens) = Budget - left /\ left \in 0..Budget
    BY DEF Inv, BudgetInv, TypeInv
  <2> QED
    BY <1>2, <1>3, <1>4, <2>1, <2>6, <2>7
<1> QED
  BY <1>4, <1>5, <1>6, <1>7, <1>8 DEF n

\* The tokens of a step are those of its requests past the computed ones,
\* each of them listed.
LEMMA TokensListed ==
    ASSUME Inv, NEW order \in Orders
    PROVE  /\ Len(Tokens(order)) \in 0..Budget /\ DOMAIN Tokens(order) = 1..Len(Tokens(order))
           /\ \A t \in 1..Len(Tokens(order)) : \E r \in Batch : \E p \in computed[r]..(Reach(r) - 1) :
                 Tokens(order)[t] = <<r, p>>
           /\ \A r \in Batch : \A p \in computed[r]..(Reach(r) - 1) :
                 \E t \in 1..Len(Tokens(order)) : Tokens(order)[t] = <<r, p>>
           /\ \A i \in 1..Len(order) : \A k \in 0..(scheduled[order[i]] - 1) :
                 /\ Start(order, i) + k + 1 \in 1..Len(Tokens(order))
                 /\ Tokens(order)[Start(order, i) + k + 1] = <<order[i], computed[order[i]] + k>>
<1> DEFINE n    == Len(order)
           S(i) == Start(order, i)
           Fits(i, t) == S(i) < t /\ t <= S(i + 1)
           Of(t) == CHOOSE i \in DOMAIN order : Fits(i, t)
<1>1. /\ n \in Nat /\ DOMAIN order = 1..n /\ \A i \in 1..n : order[i] \in Batch
      /\ \A r \in Batch : \E i \in 1..n : order[i] = r
  BY OrderType
<1>2. /\ \A i \in 1..(n + 1) : S(i) \in Nat
      /\ S(1) = 0 /\ S(n + 1) <= Budget
      /\ \A i \in 1..n : S(i + 1) = S(i) + scheduled[order[i]]
      /\ \A i, j \in 1..(n + 1) : i <= j => S(i) <= S(j)
  BY Starts
<1>3. Tokens(order) = [t \in 1..S(n + 1) |-> <<order[Of(t)], computed[order[Of(t)]] + t - S(Of(t)) - 1>>]
  BY DEF Tokens
<1>4. ASSUME NEW r \in Batch
      PROVE  r \in Requests /\ computed[r] \in Nat /\ scheduled[r] \in Nat /\ Reach(r) = computed[r] + scheduled[r]
  BY Types DEF Batch, Inv, Reach
<1> HIDE DEF n, S
<1>5. n + 1 \in 1..(n + 1) /\ 1 \in 1..(n + 1) /\ \A i \in 1..n : i \in 1..(n + 1) /\ i + 1 \in 1..(n + 1)
  BY <1>1
<1>6. ASSUME NEW t \in 1..S(n + 1) PROVE \E i \in 1..n : Fits(i, t)
  <2> DEFINE past == {i \in 1..n : t <= S(i + 1)}
  <2>1. t \in Nat /\ 0 < t /\ t <= S(n + 1) /\ S(n + 1) \in Nat
    BY <1>2, <1>5
  <2>2. n \in past
    <3>1. n # 0
      BY <1>2, <2>1
    <3> QED
      BY <1>1, <2>1, <3>1
  <2>3. past \in SUBSET Nat /\ past # {}
    BY <2>2
  <2>4. PICK i \in past : \A j \in past : i <= j
    BY <2>3, LeastIsIn
  <2>5. S(i) < t
    <3>1. CASE i = 1
      BY <1>2, <2>1, <3>1
    <3>2. CASE i # 1
      <4>1. i - 1 \in 1..n /\ i - 1 + 1 = i /\ ~(i <= i - 1) /\ i \in 1..(n + 1)
        BY <1>1, <3>2
      <4>2. ~(t <= S(i))
        BY <2>4, <4>1
      <4> QED
        BY <1>2, <2>1, <4>1, <4>2
    <3> QED
      BY <3>1, <3>2
  <2> QED
    BY <2>5
<1>7. ASSUME NEW t \in 1..S(n + 1), NEW i \in 1..n, NEW j \in 1..n, Fits(i, t), Fits(j, t) PROVE i = j
  <2>1. t \in Int /\ S(i) \in Nat /\ S(j) \in Nat /\ S(i + 1) \in Nat /\ S(j + 1) \in Nat
    BY <1>2, <1>5
  <2>2. ~(i < j)
    <3> SUFFICES ASSUME i < j PROVE FALSE
      OBVIOUS
    <3>1. S(i + 1) <= S(j)
      BY <1>1, <1>2, <1>5
    <3> QED
      BY <1>7, <2>1, <3>1
  <2>3. ~(j < i)
    <3> SUFFICES ASSUME j < i PROVE FALSE
      OBVIOUS
    <3>1. S(j + 1) <= S(i)
      BY <1>1, <1>2, <1>5
    <3> QED
      BY <1>7, <2>1, <3>1
  <2> QED
    BY <1>1, <2>2, <2>3
<1>8. ASSUME NEW t \in 1..S(n + 1) PROVE Of(t) \in 1..n /\ Fits(Of(t), t)
  BY <1>1, <1>6, Zenon
<1>9. Len(Tokens(order)) = S(n + 1) /\ DOMAIN Tokens(order) = 1..S(n + 1) /\ S(n + 1) \in 0..Budget
  <2>1. S(n + 1) \in Nat /\ Budget \in Nat
    BY <1>2, <1>5, StepAssumption
  <2>2. DOMAIN Tokens(order) = 1..S(n + 1)
    BY <1>3
  <2>3. Tokens(order) \in Seq({Tokens(order)[t] : t \in 1..S(n + 1)})
    BY <1>3, <2>1
  <2> QED
    BY <1>2, <2>1, <2>2, <2>3
<1> HIDE DEF Of, Fits
<1>10. ASSUME NEW t \in 1..S(n + 1)
       PROVE  \E r \in Batch : \E p \in computed[r]..(Reach(r) - 1) : Tokens(order)[t] = <<r, p>>
  <2> DEFINE i == Of(t)
             r == order[i]
             p == computed[r] + t - S(i) - 1
  <2>1. i \in 1..n /\ S(i) < t /\ t <= S(i) + scheduled[r] /\ r \in Batch /\ S(i) \in Nat
    BY <1>1, <1>2, <1>5, <1>8 DEF Fits
  <2>2. Tokens(order)[t] = <<r, p>>
    BY <1>3
  <2> HIDE DEF i, r
  <2>3. p \in computed[r]..(Reach(r) - 1)
    BY <1>4, <2>1
  <2> QED
    BY <2>1, <2>2, <2>3
<1>11. ASSUME NEW i \in 1..n, NEW k \in 0..(scheduled[order[i]] - 1)
       PROVE  /\ S(i) + k + 1 \in 1..S(n + 1)
              /\ Tokens(order)[S(i) + k + 1] = <<order[i], computed[order[i]] + k>>
  <2> DEFINE r == order[i]
             t == S(i) + k + 1
  <2>1. r \in Batch
    BY <1>1
  <2> HIDE DEF r
  <2>2. S(i) \in Nat /\ S(i + 1) = S(i) + scheduled[r] /\ S(i + 1) <= S(n + 1) /\ S(n + 1) \in Nat
    <3>1. i + 1 <= n + 1
      BY <1>1
    <3> QED
      BY <1>2, <1>5, <3>1 DEF r
  <2>3. t \in 1..S(n + 1) /\ S(i) < t /\ t <= S(i + 1) /\ computed[r] + t - S(i) - 1 = computed[r] + k
    BY <1>4, <2>1, <2>2 DEF r
  <2> HIDE DEF t
  <2>4. Of(t) = i
    <3>1. Fits(i, t)
      BY <2>3 DEF Fits
    <3> QED
      BY <1>7, <1>8, <2>3, <3>1
  <2>5. Tokens(order)[t] = <<r, computed[r] + k>>
    BY <1>3, <2>3, <2>4 DEF r
  <2> QED
    BY <2>3, <2>5 DEF r, t
<1>12. ASSUME NEW r \in Batch, NEW p \in computed[r]..(Reach(r) - 1)
       PROVE  \E t \in 1..S(n + 1) : Tokens(order)[t] = <<r, p>>
  <2>1. PICK i \in 1..n : order[i] = r
    BY <1>1
  <2> DEFINE k == p - computed[r]
  <2>2. k \in 0..(scheduled[order[i]] - 1) /\ computed[order[i]] + k = p
    BY <1>4, <2>1
  <2> HIDE DEF k
  <2> QED
    BY <1>11, <2>1, <2>2
<1> QED
  BY <1>9, <1>10, <1>11, <1>12 DEF n, S
(***************************************************************************)
(* The metadata of a step, and the theorem.                                *)
(***************************************************************************)

\* A step's batch is padded to no fewer rows than it has.
LEMMA PaddedEnough ==
    ASSUME NEW n \in 0..Budget PROVE RoundUp(n, BodySizes) \in Nat /\ n <= RoundUp(n, BodySizes)
<1> DEFINE fit == {b \in BodySizes : n <= b}
<1>1. Budget \in Nat /\ Budget \in BodySizes /\ BodySizes \subseteq Nat
  BY StepAssumption
<1>2. fit \in SUBSET Nat /\ fit # {}
  <2>1. Budget \in BodySizes /\ n <= Budget
    BY <1>1
  <2>2. Budget \in fit
    BY <2>1
  <2> QED
    BY <1>1, <2>2
<1>3. RoundUp(n, BodySizes) = LeastOf(fit)
  BY <1>2 DEF RoundUp
<1> HIDE DEF fit
<1>4. \E b \in fit : \A m \in fit : b <= m
  BY <1>2, LeastIsIn
<1>5. LeastOf(fit) \in fit
  BY <1>4, Zenon DEF LeastOf
<1> QED
  BY <1>1, <1>3, <1>5 DEF fit

\* The row of the block table gives a token's slot, and padding the null slot.
LEMMA SlotsFromTable ==
    ASSUME Inv, NEW order \in Orders, NEW tokens, tokens = Tokens(order), NEW padded \in Nat,
           NEW i \in 1..padded
    PROVE  LET mapping == compute_slot_mapping(tokens, padded)
           IN  /\ i > Len(tokens) => Published(mapping)[i] = _NULL_SLOT
               /\ i <= Len(tokens) =>
                     \E r \in Batch : \E p \in computed[r]..(Reach(r) - 1) :
                         tokens[i] = <<r, p>> /\ Published(mapping)[i] = SlotOf(r, p)
<1> DEFINE mapping == compute_slot_mapping(tokens, padded)
<1>1. Len(tokens) \in Nat /\ i \in Nat /\ 1 <= i
  BY TokensListed
<1>2. Published(mapping)[i] = Larger(mapping[i], _NULL_SLOT)
  BY DEF Published, compute_slot_mapping
<1>3. CASE i > Len(tokens)
  <2>1. mapping[i] = -1
    BY <1>3 DEF compute_slot_mapping, PAD_ID
  <2> HIDE DEF mapping
  <2>2. Published(mapping)[i] = 0
    BY <1>2, <2>1 DEF Larger, _NULL_SLOT
  <2> QED
    BY <1>1, <1>3, <2>2 DEF mapping, _NULL_SLOT
<1>4. CASE ~(i > Len(tokens))
  <2>1. i \in 1..Len(tokens)
    BY <1>1, <1>4
  <2>2. PICK r \in Batch : \E p \in computed[r]..(Reach(r) - 1) : tokens[i] = <<r, p>>
    BY <2>1, TokensListed
  <2>3. PICK p \in computed[r]..(Reach(r) - 1) : tokens[i] = <<r, p>>
    BY <2>2
  <2>4. r \in Running
    BY DEF Batch, Inv, RowsInv, Running
  <2>5. r \in Requests /\ computed[r] \in Nat /\ Reach(r) \in Nat
    BY <2>4, Types DEF Inv, Running
  <2>6. p \in 0..(Reach(r) - 1)
    BY <2>3, <2>5
  <2>7. /\ p \in Nat /\ p % BlockSize \in Offsets /\ BlockOf(r, p) \in Blocks
        /\ table[row[r]][p \div BlockSize] = BlockOf(r, p)
    BY <2>4, <2>6, TokenHasBlock DEF Inv
  <2>8. mapping[i] = table[row[r]][p \div BlockSize] * BlockSize + (p % BlockSize)
    BY <1>4, <2>3 DEF compute_slot_mapping
  <2>9. mapping[i] = SlotOf(r, p)
    BY <2>7, <2>8, Zenon DEF SlotOf
  <2>10. SlotOf(r, p) \in Nat
    <3>1. BlockOf(r, p) \in Nat /\ BlockSize \in Nat /\ p % BlockSize \in Nat
      BY <2>7, KernelAssumption DEF Blocks, Offsets
    <3> QED
      BY <3>1 DEF SlotOf
  <2> HIDE DEF mapping
  <2>11. Published(mapping)[i] = SlotOf(r, p)
    BY <1>2, <2>9, <2>10 DEF Larger, _NULL_SLOT
  <2> QED
    BY <1>4, <2>3, <2>11 DEF mapping
<1> QED
  BY <1>3, <1>4

\* The slots that are published are the places of the step's tokens.
LEMMA BuildKeeps == ASSUME Inv, Build PROVE Inv'
<1>1. /\ phase = "idle" /\ phase' = "built" /\ memory' = memory
      /\ UNCHANGED <<layer, pool, request, plan>>
  BY DEF Build
<1>2. PICK order \in Orders :
         /\ slots' = Published(compute_slot_mapping(Tokens(order), RoundUp(Len(Tokens(order)), BodySizes)))
         /\ query' = [i \in 0..(StagingRows - 1) |->
                         IF i < Len(Tokens(order)) THEN Tokens(order)[i + 1] ELSE Junk]
  BY DEF Build
<1>3. /\ TypeInv' /\ BlocksInv' /\ RowsInv' /\ RoomInv' /\ BudgetInv'
      /\ Running' = Running /\ Batch' = Batch /\ layer' = layer
      /\ \A r : Reach(r)' = Reach(r)
      /\ \A r, p : SlotOf(r, p)' = SlotOf(r, p)
      /\ \A r, p, h : Cell(r, p, h)' = Cell(r, p, h)
  BY <1>1, PoolKept
<1> DEFINE tokens == Tokens(order)
           padded == RoundUp(Len(tokens), BodySizes)
<1>4. Len(tokens) \in 0..Budget /\ Budget \in Nat /\ padded \in Nat /\ Len(tokens) <= padded
  BY TokensListed, PaddedEnough, StepAssumption
<1>5. slots' = Published(compute_slot_mapping(tokens, padded)) /\ DOMAIN slots' = 1..padded
  BY <1>2 DEF Published, compute_slot_mapping
<1>6. ASSUME NEW i \in 1..Len(tokens) PROVE query'[i - 1] = tokens[i]
  <2>1. i - 1 \in 0..(StagingRows - 1) /\ i - 1 < Len(tokens) /\ (i - 1) + 1 = i
    BY <1>4, StepAssumption
  <2> QED
    BY <1>2, <2>1
<1>7. \A r \in Batch : \A p \in computed[r]..(Reach(r) - 1) :
         \E i \in 1..Len(tokens) : tokens[i] = <<r, p>>
  BY TokensListed
<1> HIDE DEF tokens, padded
<1>8. ASSUME NEW i \in 1..padded
      PROVE  /\ i > Len(tokens) => slots'[i] = _NULL_SLOT
             /\ i <= Len(tokens) =>
                   \E r \in Batch : \E p \in computed[r]..(Reach(r) - 1) :
                       tokens[i] = <<r, p>> /\ slots'[i] = SlotOf(r, p)
  <2>1. tokens = Tokens(order)
    BY DEF tokens
  <2> QED
    BY <1>4, <1>5, <2>1, SlotsFromTable
<1>9. \A i \in 1..padded :
         \/ slots'[i] = _NULL_SLOT
         \/ \E r \in Batch : \E p \in computed[r]..(Reach(r) - 1) :
               query'[i - 1] = <<r, p>> /\ slots'[i] = SlotOf(r, p)
  <2> SUFFICES ASSUME NEW i \in 1..padded, slots'[i] # _NULL_SLOT
               PROVE  \E r \in Batch : \E p \in computed[r]..(Reach(r) - 1) :
                         query'[i - 1] = <<r, p>> /\ slots'[i] = SlotOf(r, p)
    OBVIOUS
  <2>1. i \in 1..Len(tokens)
    BY <1>4, <1>8
  <2> QED
    BY <1>4, <1>6, <1>8, <2>1
<1>10. \A r \in Batch : \A p \in computed[r]..(Reach(r) - 1) :
          \E i \in 1..padded : query'[i - 1] = <<r, p>> /\ slots'[i] = SlotOf(r, p)
  <2> SUFFICES ASSUME NEW r \in Batch, NEW p \in computed[r]..(Reach(r) - 1)
               PROVE  \E i \in 1..padded : query'[i - 1] = <<r, p>> /\ slots'[i] = SlotOf(r, p)
    OBVIOUS
  <2>1. PICK i \in 1..Len(tokens) : tokens[i] = <<r, p>>
    BY <1>7
  <2>2. i \in 1..padded /\ i <= Len(tokens) /\ query'[i - 1] = <<r, p>>
    BY <1>4, <1>6, <2>1
  <2>3. PICK s \in Batch : \E q \in computed[s]..(Reach(s) - 1) :
              tokens[i] = <<s, q>> /\ slots'[i] = SlotOf(s, q)
    BY <1>8, <2>2
  <2>4. slots'[i] = SlotOf(r, p)
    BY <2>1, <2>3
  <2> QED
    BY <2>2, <2>4
<1>11. SlotsInv'
  <2>1. computed' = computed
    BY <1>1 DEF request
  <2>2. \A i \in DOMAIN slots' :
           \/ slots'[i] = _NULL_SLOT
           \/ \E r \in Batch' : \E p \in computed'[r]..(Reach(r)' - 1) :
                 query'[i - 1] = <<r, p>> /\ slots'[i] = SlotOf(r, p)'
    BY <1>3, <1>5, <1>9, <2>1, Zenon
  <2>3. \A r \in Batch' : \A p \in computed'[r]..(Reach(r)' - 1) :
           \E i \in DOMAIN slots' : query'[i - 1] = <<r, p>> /\ slots'[i] = SlotOf(r, p)'
    BY <1>3, <1>5, <1>10, <2>1, Zenon
  <2> QED
    BY <2>2, <2>3, Zenon DEF SlotsInv
<1>12. CacheInv'
  <2> SUFFICES ASSUME NEW r \in Running, NEW p \in 0..(Stored(r)' - 1), NEW h \in 0..(layer.heads - 1)
               PROVE  Held(r, p, h)' = {<<r, p, h>>}
    BY <1>3 DEF CacheInv
  <2>1. Stored(r)' = Stored(r)
    BY <1>1 DEF Stored, request
  <2>2. Held(r, p, h) = {<<r, p, h>>}
    BY <2>1, Zenon DEF Inv, CacheInv
  <2>3. Held(r, p, h)' = memory'[Cell(r, p, h)']
    BY DEF Held, Cell, LiesAt, BlockOf
  <2> QED
    BY <1>1, <1>3, <2>2, <2>3, HeldInCell
<1> QED
  BY <1>3, <1>11, <1>12 DEF Inv

\* Steps that change nothing here keep it.
LEMMA StutterKeeps == ASSUME Inv, UNCHANGED vars PROVE Inv'
<1>1. UNCHANGED <<layer, pool, request, plan, memory, slots, phase, query>>
  BY DEF vars, pool, request, plan
<1>2. phase' \in {"idle", "built", "stored", "attended"}
  BY <1>1 DEF Inv, TypeInv
<1>3. /\ TypeInv' /\ BlocksInv' /\ RowsInv' /\ RoomInv' /\ BudgetInv'
      /\ Running' = Running /\ Batch' = Batch /\ layer' = layer
      /\ \A r : Reach(r)' = Reach(r)
      /\ \A r, p : SlotOf(r, p)' = SlotOf(r, p)
      /\ \A r, p, h : Cell(r, p, h)' = Cell(r, p, h)
  BY <1>1, <1>2, PoolKept
<1>4. SlotsInv'
  <2>1. computed' = computed
    BY <1>1 DEF request
  <2> QED
    BY <1>1, <1>3, <2>1 DEF Inv, SlotsInv
<1>5. CacheInv'
  <2> SUFFICES ASSUME NEW r \in Running, NEW p \in 0..(Stored(r)' - 1), NEW h \in 0..(layer.heads - 1)
               PROVE  Held(r, p, h)' = {<<r, p, h>>}
    BY <1>3 DEF CacheInv
  <2>1. Stored(r)' = Stored(r)
    BY <1>1, <1>3 DEF Stored, request
  <2>2. Held(r, p, h) = {<<r, p, h>>}
    BY <2>1, Zenon DEF Inv, CacheInv
  <2>3. Held(r, p, h)' = memory'[Cell(r, p, h)']
    BY DEF Held, Cell, LiesAt, BlockOf
  <2> QED
    BY <1>1, <1>3, <2>2, <2>3, HeldInCell
<1> QED
  BY <1>3, <1>4, <1>5 DEF Inv

\* The invariant is inductive.
LEMMA NextKeeps == Inv /\ [Next]_vars => Inv'
<1> SUFFICES ASSUME Inv, [Next]_vars PROVE Inv'
  OBVIOUS
<1>1. ASSUME NEW r \in Requests, Schedule(r) PROVE Inv'
  BY <1>1, ScheduleKeeps
<1>2. ASSUME NEW r \in Requests, Preempt(r) PROVE Inv'
  BY <1>2, PreemptKeeps
<1>3. ASSUME NEW r \in Requests, Finish(r) PROVE Inv'
  BY <1>3, FinishKeeps
<1>4. CASE Build
  BY <1>4, BuildKeeps
<1>5. CASE StoreKv
  BY <1>5, StoreKvKeeps
<1>6. CASE forward
  BY <1>6, ForwardKeeps
<1>7. CASE Return
  BY <1>7, ReturnKeeps
<1>8. ASSUME NEW n \in BodySizes, DummyRun(n) PROVE Inv'
  BY <1>8, DummyRunKeeps
<1>9. CASE UNCHANGED vars
  BY <1>9, StutterKeeps
<1> QED
  BY <1>1, <1>2, <1>3, <1>4, <1>5, <1>6, <1>7, <1>8, <1>9 DEF Next

\* Between steps, what is stored is what is computed.
LEMMA InvGivesCache == ASSUME Inv PROVE CacheHoldsItsTokens
<1> SUFFICES ASSUME phase = "idle", NEW r \in Requests, row[r] # 0,
                    NEW p \in 0..(computed[r] - 1), NEW h \in 0..(layer.heads - 1)
             PROVE  Held(r, p, h) = {<<r, p, h>>}
  BY DEF CacheHoldsItsTokens
<1>1. r \in Running /\ Stored(r) = computed[r]
  BY DEF Running, Stored
<1>2. p \in 0..(Stored(r) - 1)
  BY <1>1
<1> QED
  BY <1>1, <1>2, Zenon DEF Inv, CacheInv

\* Whatever requests there are, however they are scheduled, preempted and
\* finished, and whatever blocks they are given, every place a running request
\* has computed holds its own key and value between steps: the slots of a step
\* name its tokens' places and no others', the padding of a batch and dummy runs
\* store to the null slot, and neither layout of the cache maps two places to
\* one cell (attn_layer.py:86, kv_write_index; SlotMapping.publish and publish_null).
THEOREM CacheKept == Spec => []CacheHoldsItsTokens
<1>1. Spec => []Inv
  BY InitInv, NextKeeps, PTL DEF Spec
<1> QED
  BY <1>1, InvGivesCache, PTL
(***************************************************************************)
(* Sizes and pages of a sequence.                                          *)
(***************************************************************************)

\* A length that some bucket holds is rounded up to one.
LEMMA RoundsUp ==
    ASSUME NEW B \in SUBSET Nat, NEW n \in Nat, NEW m \in B, n <= m
    PROVE  RoundUp(n, B) \in B /\ RoundUp(n, B) \in Nat /\ n <= RoundUp(n, B)
<1> DEFINE fit == {b \in B : n <= b}
<1>1. m \in fit
  OBVIOUS
<1>2. fit \in SUBSET Nat /\ fit # {}
  BY <1>1
<1>3. RoundUp(n, B) = LeastOf(fit)
  BY <1>2 DEF RoundUp
<1> HIDE DEF fit
<1>4. \E b \in fit : \A k \in fit : b <= k
  BY <1>2, LeastIsIn
<1>5. LeastOf(fit) \in fit
  BY <1>4, Zenon DEF LeastOf
<1> QED
  BY <1>3, <1>5 DEF fit

\* build: the rows of a tile are no fewer than the sequence's.
LEMMA AlignedEnough ==
    ASSUME NEW n \in 1..Budget
    PROVE  aligned_query_len(n) \in Nat /\ n <= aligned_query_len(n)
<1>1. PICK b \in QueryBuckets : Budget <= b
  BY StepAssumption
<1>2. QueryBuckets \in SUBSET Nat /\ Budget \in Nat /\ b \in Nat
  BY KernelAssumption, StepAssumption
<1>3. n \in Nat /\ n <= b
  BY <1>1, <1>2
<1>4. RoundUp(n, QueryBuckets) \in Nat /\ n <= RoundUp(n, QueryBuckets)
  BY <1>2, <1>3, RoundsUp
<1> QED
  BY <1>3, <1>4 DEF aligned_query_len

\* Whole pages of a context: the last one begun is needed.
LEMMA Pages ==
    ASSUME NEW n \in Nat \ {0}, NEW d \in Nat \ {0}
    PROVE  /\ CeilDiv(n, d) \in Nat \ {0} /\ n <= CeilDiv(n, d) * d
           /\ (CeilDiv(n, d) - 1) * d < n
<1> DEFINE x == n + d - 1
           k == x \div d
<1>1. x \in Nat
  OBVIOUS
<1>2. k \in Nat /\ x % d \in 0..(d - 1) /\ x = k * d + (x % d)
  BY <1>1, Parts
<1>3. CeilDiv(n, d) = k
  BY DEF CeilDiv
<1>4. n <= k * d
  BY <1>3, CeilingCovers
<1> HIDE DEF k
<1>5. k # 0
  <2> SUFFICES ASSUME k = 0 PROVE FALSE
    OBVIOUS
  <2>1. k * d = 0
    OBVIOUS
  <2> QED
    BY <1>4, <2>1
<1>6. (k - 1) * d = k * d - d /\ k * d \in Nat
  BY <1>2
<1>7. (k - 1) * d < n
  BY <1>2, <1>6
<1> QED
  BY <1>2, <1>3, <1>4, <1>5, <1>7

\* What is past a quotient is past the number, what is short of it short.
LEMMA PastQuotient ==
    ASSUME NEW n \in Nat \ {0}, NEW x \in Nat, NEW b \in Nat, x \div n < b PROVE x < b * n
<1>1. x \div n \in Nat /\ x % n \in 0..(n - 1) /\ x = (x \div n) * n + (x % n)
  BY Parts
<1>2. (x \div n) * n + n <= b * n
  BY <1>1, NextMultiple
<1>3. (x \div n) * n \in Nat /\ b * n \in Nat
  BY <1>1
<1> QED
  BY <1>1, <1>2, <1>3

\* The same from the other side.
LEMMA ShortOfQuotient ==
    ASSUME NEW n \in Nat \ {0}, NEW x \in Nat, NEW b \in Nat, b < x \div n PROVE b * n + n <= x
<1>1. x \div n \in Nat /\ x % n \in 0..(n - 1) /\ x = (x \div n) * n + (x % n)
  BY Parts
<1>2. b * n + n <= (x \div n) * n
  BY <1>1, NextMultiple
<1>3. (x \div n) * n \in Nat /\ b * n \in Nat
  BY <1>1
<1> QED
  BY <1>1, <1>2, <1>3

\* The pages of two places are in the order of the places.
LEMMA QuotientsFollow ==
    ASSUME NEW n \in Nat \ {0}, NEW x \in Nat, NEW y \in Nat, x <= y PROVE x \div n <= y \div n
<1>1. x \div n \in Nat /\ y \div n \in Nat
  BY Parts
<1> SUFFICES ASSUME y \div n < x \div n PROVE FALSE
  BY <1>1
<1>2. (y \div n) * n + n <= x
  BY <1>1, ShortOfQuotient
<1>3. y % n \in 0..(n - 1) /\ y = (y \div n) * n + (y % n)
  BY Parts
<1>4. (y \div n) * n \in Nat
  BY <1>1
<1> QED
  BY <1>2, <1>3, <1>4

\* _pad_num_blocks: a request's pages fit a bucket, in either layout.
LEMMA BlocksPadded ==
    ASSUME NEW l \in Layers, NEW k \in Nat \ {0}, k <= MaxModelLen
    PROVE  LET n == CeilDiv(k, BlockSize)
           IN  pad_num_blocks(l, n) \in Nat /\ n <= pad_num_blocks(l, n)
<1> DEFINE n == CeilDiv(k, BlockSize)
<1>1. BlockSize \in Nat \ {0} /\ MaxModelLen \in Nat /\ BlocksBuckets \in SUBSET Nat
  BY KernelAssumption
<1>2. n \in Nat \ {0} /\ (n - 1) * BlockSize < k
  BY <1>1, Pages
<1>3. PICK m \in BlocksBuckets : MaxModelLen <= m * BlockSize
  BY KernelAssumption
<1> HIDE DEF n
<1>4. m \in Nat /\ n <= m
  <2>1. m \in Nat
    BY <1>1
  <2> SUFFICES ASSUME ~(n <= m) PROVE FALSE
    BY <2>1
  <2>2. m = n - 1 \/ m < n - 1
    BY <1>2, <2>1
  <2>3. n - 1 \in Nat /\ m * BlockSize \in Nat /\ (n - 1) * BlockSize \in Nat
    BY <1>1, <1>2, <2>1
  <2>4. m * BlockSize <= (n - 1) * BlockSize
    <3>1. CASE m = n - 1
      BY <3>1, <2>3
    <3>2. CASE m < n - 1
      BY <1>1, <2>1, <2>3, <3>2, NextMultiple
    <3> QED
      BY <2>2, <3>1, <3>2
  <2> QED
    BY <1>1, <1>2, <1>3, <2>3, <2>4
<1>5. NumBlocksBuckets(l) \in SUBSET Nat /\ \E b \in NumBlocksBuckets(l) : n <= b
  <2>1. Larger(2, m) \in Nat /\ n <= Larger(2, m) /\ \A b \in BlocksBuckets : Larger(2, b) \in Nat
    BY <1>1, <1>2, <1>4 DEF Larger
  <2> QED
    BY <1>1, <1>4, <2>1 DEF NumBlocksBuckets
<1>6. RoundUp(n, NumBlocksBuckets(l)) \in Nat /\ n <= RoundUp(n, NumBlocksBuckets(l))
  BY <1>2, <1>5, RoundsUp
<1>7. pad_num_blocks(l, n) = RoundUp(n, NumBlocksBuckets(l))
  BY <1>2 DEF pad_num_blocks
<1> QED
  BY <1>6, <1>7 DEF n

(***************************************************************************)
(* Tiles: what a row of a sequence is shown is what it may see.            *)
(***************************************************************************)

\* A sequence of a step: its sizes, and the places a query of it may see.
Sized(s) ==
    /\ s.q \in 1..Budget /\ s.kv \in Nat /\ s.q <= s.kv /\ s.kv <= MaxModelLen /\ s.start \in Nat

Clamped(s, i) == Smaller(i, Larger(s.q - 1, 0))

Sees(s, i, c) ==
    {p \in 0..(s.kv - 1) :
        /\ c => p <= s.kv - s.q + i
        /\ layer.window > 0 => p > s.kv - s.q + i - layer.window}

\* The block of a stack's first tile, and the place that a slot of a tile has.
From(s) == IF layer.window = 0 THEN 0 ELSE first_active(layer, s)
PosAt(s, t, o) == (From(s) + (t - 1)) * BlockSize + o

\* What is a number, and how a sequence's sizes stand to one another.
LEMMA SizesAre ==
    ASSUME layer \in Layers, NEW s, Sized(s)
    PROVE  /\ BlockSize \in Nat \ {0} /\ layer.window \in Nat /\ layer.heads \in Nat \ {0}
           /\ MaxModelLen \in Nat /\ Budget \in Nat
           /\ s.q \in Nat \ {0} /\ s.kv \in Nat \ {0} /\ s.q <= s.kv /\ s.start \in Nat
           /\ aligned_query_len(s.q) \in Nat /\ s.q <= aligned_query_len(s.q)
           /\ \A i \in Nat : Clamped(s, i) \in 0..(s.q - 1)
           /\ \A i \in 0..(s.q - 1) : Clamped(s, i) = i
           /\ From(s) \in Nat
<1>1. /\ BlockSize \in Nat \ {0} /\ layer.window \in Nat /\ layer.heads \in Nat \ {0} /\ MaxModelLen \in Nat
      /\ Budget \in Nat
  BY KernelAssumption, LayerAssumption, StepAssumption
<1>2. s.q \in Nat \ {0} /\ s.kv \in Nat \ {0} /\ s.q <= s.kv /\ s.start \in Nat
  BY <1>1 DEF Sized
<1>3. aligned_query_len(s.q) \in Nat /\ s.q <= aligned_query_len(s.q)
  BY AlignedEnough DEF Sized
<1>4. /\ \A i \in Nat : Clamped(s, i) \in 0..(s.q - 1)
      /\ \A i \in 0..(s.q - 1) : Clamped(s, i) = i
  BY <1>2 DEF Clamped, Smaller, Larger
<1>5. From(s) \in Nat
  <2>1. Larger(0, s.kv - s.q - layer.window + 1) \in Nat
    BY <1>1, <1>2 DEF Larger
  <2>2. first_active(layer, s) \in Nat
    BY <1>1, <2>1, Parts DEF first_active
  <2> QED
    BY <2>2 DEF From
<1> QED
  BY <1>1, <1>2, <1>3, <1>4, <1>5

\* A slot of a tile has one place, and no other slot has it.
LEMMA PlacesOfSlots ==
    ASSUME layer \in Layers, NEW s, Sized(s), NEW t \in Nat \ {0}, NEW o \in Offsets,
           NEW u \in Nat \ {0}, NEW x \in Offsets
    PROVE  /\ PosAt(s, t, o) \in Nat /\ PosAt(s, t, o) \div BlockSize = From(s) + (t - 1)
           /\ PosAt(s, t, o) % BlockSize = o
           /\ PosAt(s, t, o) = PosAt(s, u, x) => t = u /\ o = x
<1>1. BlockSize \in Nat \ {0} /\ From(s) \in Nat
  BY SizesAre
<1>2. From(s) + (t - 1) \in Nat /\ From(s) + (u - 1) \in Nat /\ o \in 0..(BlockSize - 1) /\ x \in 0..(BlockSize - 1)
  BY <1>1 DEF Offsets
<1>3. PosAt(s, t, o) \in Nat
  <2>1. (From(s) + (t - 1)) * BlockSize \in Nat
    BY <1>1, <1>2
  <2> QED
    BY <1>2, <2>1 DEF PosAt
<1>4. PosAt(s, t, o) \div BlockSize = From(s) + (t - 1) /\ PosAt(s, t, o) % BlockSize = o
  BY <1>1, <1>2, PartsOfSum DEF PosAt
<1>5. ASSUME PosAt(s, t, o) = PosAt(s, u, x) PROVE t = u /\ o = x
  <2> DEFINE a == From(s) + (t - 1)
             b == From(s) + (u - 1)
  <2>1. a * BlockSize + o = b * BlockSize + x
    BY <1>5 DEF PosAt
  <2>2. a \in Nat /\ b \in Nat
    BY <1>2
  <2> HIDE DEF a, b
  <2>3. a = b /\ o = x
    BY <1>1, <1>2, <2>1, <2>2, PartsAreUnique
  <2> QED
    BY <1>1, <2>3 DEF a, b
<1> QED
  BY <1>3, <1>4, <1>5

\* _build_attention_mask and _build_single_tile, for a row that may be padding.
LEMMA MaskShows ==
    ASSUME layer \in Layers, NEW s, Sized(s), NEW c \in BOOLEAN, NEW aligned \in Nat,
           NEW i \in 0..(aligned - 1), NEW b \in Nat, NEW o \in Offsets
    PROVE  LET p == b * BlockSize + o
           IN  /\ layer.window = 0 =>
                     (<<i, o>> \in build_attention_mask(s, b, c, aligned) <=> p \in Sees(s, Clamped(s, i), c))
               /\ layer.window > 0 =>
                     (<<i, o>> \in build_single_tile(layer, s, b, c, aligned) <=> p \in Sees(s, Clamped(s, i), c))
<1> DEFINE p == b * BlockSize + o
<1>1. /\ BlockSize \in Nat \ {0} /\ layer.window \in Nat
      /\ s.q \in Nat \ {0} /\ s.kv \in Nat \ {0} /\ s.q <= s.kv
      /\ i \in Nat /\ Clamped(s, i) \in 0..(s.q - 1)
  BY SizesAre
<1>2. p \in Nat
  <2>1. b * BlockSize \in Nat /\ o \in Nat
    BY <1>1 DEF Offsets
  <2> QED
    BY <2>1
<1> HIDE DEF p
<1>3. Place(s, i) = s.kv - s.q + Clamped(s, i)
  BY DEF Place, Clamped
<1>4. <<i, o>> \in Cells(aligned)
  BY DEF Cells
<1>5. <<i, o>> \in build_attention_mask(s, b, c, aligned) <=> p < s.kv /\ (c => p <= Place(s, i))
  BY <1>4 DEF build_attention_mask, p
<1>6. <<i, o>> \in build_single_tile(layer, s, b, c, aligned) <=>
         <<i, o>> \in build_attention_mask(s, b, c, aligned) /\ p >= Larger(0, Place(s, i) - layer.window + 1)
  BY DEF build_single_tile, p
<1>7. p >= Larger(0, Place(s, i) - layer.window + 1) <=> p > s.kv - s.q + Clamped(s, i) - layer.window
  BY <1>1, <1>2, <1>3 DEF Larger
<1>8. p < s.kv <=> p \in 0..(s.kv - 1)
  BY <1>1, <1>2
<1> QED
  BY <1>1, <1>3, <1>5, <1>6, <1>7, <1>8 DEF Sees, p

\* A tile built without looking at its rows shows all of them all of it, rightly.
LEMMA InteriorShowsAll ==
    ASSUME layer \in Layers, NEW s, Sized(s), NEW c \in BOOLEAN, NEW i \in Nat, NEW b \in Nat, NEW o \in Offsets,
           layer.window > 0, is_interior(layer, s, b, c)
    PROVE  b * BlockSize + o \in Sees(s, Clamped(s, i), c)
<1>1. /\ BlockSize \in Nat \ {0} /\ layer.window \in Nat
      /\ s.q \in Nat \ {0} /\ s.kv \in Nat \ {0} /\ s.q <= s.kv /\ Clamped(s, i) \in 0..(s.q - 1)
  BY SizesAre
<1> DEFINE w == Larger(0, s.kv - layer.window)
           n == CeilDiv(s.kv, BlockSize)
           d == b * BlockSize
<1>2. w \in Nat /\ w >= s.kv - layer.window
  BY <1>1 DEF Larger
<1>3. n \in Nat \ {0} /\ (n - 1) * BlockSize < s.kv
  BY <1>1, Pages
<1>4. w \div BlockSize < b /\ b < n - 1 /\ (c => b <= (s.kv - s.q + 1) \div BlockSize - 1)
  BY <1>1 DEF is_interior
<1> HIDE DEF w, n
<1>5. d \in Nat /\ o \in Nat /\ o < BlockSize
  BY <1>1 DEF Offsets
<1>6. w < d
  BY <1>1, <1>2, <1>4, PastQuotient
<1>7. d + BlockSize < s.kv
  <2>1. n - 1 \in Nat /\ d + BlockSize <= (n - 1) * BlockSize
    BY <1>1, <1>3, <1>4, NextMultiple
  <2>2. (n - 1) * BlockSize \in Nat
    BY <1>1, <2>1
  <2> QED
    BY <1>1, <1>3, <1>5, <2>1, <2>2
<1>8. c => d + BlockSize <= s.kv - s.q + 1
  <2> SUFFICES ASSUME c PROVE d + BlockSize <= s.kv - s.q + 1
    OBVIOUS
  <2>1. s.kv - s.q + 1 \in Nat
    BY <1>1
  <2>2. (s.kv - s.q + 1) \div BlockSize \in Nat
    BY <1>1, <2>1, Parts
  <2>3. b < (s.kv - s.q + 1) \div BlockSize
    BY <1>4, <2>2
  <2> QED
    BY <1>1, <2>1, <2>3, ShortOfQuotient
<1> HIDE DEF d
<1>9. d + o \in 0..(s.kv - 1) /\ (c => d + o <= s.kv - s.q + Clamped(s, i))
      /\ d + o > s.kv - s.q + Clamped(s, i) - layer.window
  BY <1>1, <1>2, <1>5, <1>6, <1>7, <1>8
<1> QED
  BY <1>9 DEF Sees, d

\* A sequence that is padded begins as it was.
LEMMA PaddedSequence ==
    ASSUME NEW T, NEW s \in Seq(T), NEW e \in T, NEW k \in Int,
           NEW p, DOMAIN p = 1..k, p \in [1..k -> {e}], NEW v, v = s \o p
    PROVE  /\ Len(v) \in Nat /\ DOMAIN v = 1..Len(v) /\ Len(s) <= Len(v)
           /\ \A t \in 1..Len(v) : IF t <= Len(s) THEN v[t] = s[t] ELSE v[t] = e
<1> DEFINE n == Len(s)
           m == IF k < 0 THEN 0 ELSE k
<1>1. m \in Nat /\ 1..k = 1..m /\ n \in Nat
  OBVIOUS
<1>2. p \in [1..m -> T]
  BY <1>1
<1>4. \A i \in 1..m : p[i] = e
  BY <1>1
<1> HIDE DEF m
<1>3. p \in Seq(T) /\ Len(p) = m
  BY <1>1, <1>2
<1>5. v = s \o p
  OBVIOUS
<1>6. v \in Seq(T) /\ Len(v) = n + m
  <2>1. v \in Seq(T) /\ Len(v) = Len(s) + Len(p)
    BY <1>3, <1>5, ConcatProperties, Zenon
  <2> QED
    BY <1>3, <2>1
<1>7. \A i \in 1..(n + m) : v[i] = IF i <= n THEN s[i] ELSE p[i - n]
  BY <1>1, <1>3, <1>5, ConcatProperties
<1>8. DOMAIN v = 1..Len(v)
  BY <1>6, LenProperties
<1>9. ASSUME NEW t \in 1..(n + m) PROVE IF t <= n THEN v[t] = s[t] ELSE v[t] = e
  <2>1. CASE t <= n
    BY <1>7, <2>1
  <2>2. CASE ~(t <= n)
    <3>1. t - n \in 1..m
      BY <1>1, <2>2
    <3> QED
      BY <1>4, <1>7, <2>2, <3>1
  <2> QED
    BY <2>1, <2>2
<1>10. \A t \in 1..Len(v) : IF t <= n THEN v[t] = s[t] ELSE v[t] = e
  BY <1>6, <1>9, Zenon
<1>11. Len(v) \in Nat /\ n <= Len(v)
  <2>1. n \in Nat /\ m \in Nat /\ Len(v) = n + m
    BY <1>1, <1>6
  <2>2. \A a, b \in Nat : a + b \in Nat /\ a <= a + b
    OBVIOUS
  <2> QED
    BY <2>1, <2>2, Zenon
<1> QED
  BY <1>8, <1>10, <1>11, Zenon

\* A context's first page that is not dropped is one of its pages, and the
\* page of every place that a row may see is one of those from it on.
LEMMA PageOfPlace ==
    ASSUME layer \in Layers, NEW s, Sized(s), NEW c, NEW i \in 0..(s.q - 1)
    PROVE  /\ CeilDiv(s.kv, BlockSize) \in Nat /\ From(s) < CeilDiv(s.kv, BlockSize)
           /\ \A p \in Sees(s, i, c) :
                 /\ p \in Nat /\ p < s.kv /\ p % BlockSize \in Offsets
                 /\ p \div BlockSize \in From(s)..(CeilDiv(s.kv, BlockSize) - 1)
                 /\ p = (p \div BlockSize) * BlockSize + (p % BlockSize)
<1> DEFINE n == CeilDiv(s.kv, BlockSize)
           x == Larger(0, s.kv - s.q - layer.window + 1)
<1>1. /\ BlockSize \in Nat \ {0} /\ layer.window \in Nat /\ From(s) \in Nat
      /\ s.q \in Nat \ {0} /\ s.kv \in Nat \ {0} /\ s.q <= s.kv
  BY SizesAre
<1>2. n \in Nat \ {0} /\ s.kv <= n * BlockSize
  BY <1>1, Pages
<1> HIDE DEF n
<1>3. n * BlockSize \in Nat
  BY <1>1, <1>2
<1>4. From(s) < n
  <2>1. CASE layer.window = 0
    BY <1>2, <2>1 DEF From
  <2>2. CASE layer.window # 0
    <3>1. x \in Nat /\ x < n * BlockSize
      BY <1>1, <1>2, <1>3, <2>2 DEF Larger
    <3>2. From(s) = x \div BlockSize
      BY <2>2 DEF From, first_active
    <3> HIDE DEF x
    <3>3. x \div BlockSize \in 0..(n - 1)
      BY <1>1, <1>2, <3>1, QuotientBelow
    <3> QED
      BY <1>2, <3>2, <3>3
  <2> QED
    BY <2>1, <2>2
<1>5. ASSUME NEW p \in Sees(s, i, c)
      PROVE  /\ p \in Nat /\ p < s.kv /\ p % BlockSize \in Offsets
             /\ p \div BlockSize \in From(s)..(n - 1)
             /\ p = (p \div BlockSize) * BlockSize + (p % BlockSize)
  <2>1. p \in Nat /\ p < s.kv /\ (layer.window > 0 => p > s.kv - s.q + i - layer.window)
    BY <1>1 DEF Sees
  <2>2. p % BlockSize \in 0..(BlockSize - 1) /\ p = (p \div BlockSize) * BlockSize + (p % BlockSize)
    BY <1>1, <2>1, Parts
  <2>3. p \div BlockSize \in 0..(n - 1)
    <3>1. p < n * BlockSize
      BY <1>1, <1>2, <1>3, <2>1
    <3> QED
      BY <1>1, <1>2, <2>1, <3>1, QuotientBelow
  <2>4. From(s) <= p \div BlockSize
    <3>1. CASE layer.window = 0
      BY <2>3, <3>1 DEF From
    <3>2. CASE layer.window # 0
      <4>1. x \in Nat /\ x <= p
        BY <1>1, <2>1, <3>2 DEF Larger
      <4>2. From(s) = x \div BlockSize
        BY <3>2 DEF From, first_active
      <4> HIDE DEF x
      <4> QED
        BY <1>1, <2>1, <4>1, <4>2, QuotientsFollow
    <3> QED
      BY <3>1, <3>2
  <2> QED
    BY <1>1, <1>2, <2>1, <2>2, <2>3, <2>4 DEF Offsets
<1> QED
  BY <1>2, <1>4, <1>5 DEF n

\* attention_mask_stacks: each slot that a row of the sequence is shown is on
\* the page of a place it may see, and each such place has one.
StackShows(s, stack, aligned, c) ==
    /\ Len(stack) \in Nat /\ DOMAIN stack = 1..Len(stack)
    /\ \A i \in 0..(aligned - 1), t \in 1..Len(stack), o \in Offsets :
          <<i, o>> \in stack[t].shown =>
              /\ PosAt(s, t, o) \in Sees(s, Clamped(s, i), c)
              /\ stack[t].page = s.row[PosAt(s, t, o) \div BlockSize]
    /\ \A i \in 0..(aligned - 1) : \A p \in Sees(s, Clamped(s, i), c) :
          \E t \in 1..Len(stack), o \in Offsets : PosAt(s, t, o) = p /\ <<i, o>> \in stack[t].shown

\* mask_stack without a window: the tiles of a whole context show it.
LEMMA WholeStack ==
    ASSUME layer \in Layers, NEW s, Sized(s), NEW c \in BOOLEAN, layer.window = 0
    PROVE  /\ StackShows(s, mask_stack(layer, s, c), aligned_query_len(s.q), c /\ aligned_query_len(s.q) > 1)
           /\ CeilDiv(s.kv, BlockSize) <= Len(mask_stack(layer, s, c))
<1> DEFINE aligned == aligned_query_len(s.q)
           n       == CeilDiv(s.kv, BlockSize)
           blocksN == pad_num_blocks(layer, n)
           cc      == c /\ aligned > 1
           stack   == mask_stack(layer, s, c)
<1>1. /\ BlockSize \in Nat \ {0} /\ aligned \in Nat /\ s.kv \in Nat \ {0} /\ s.kv <= MaxModelLen /\ cc \in BOOLEAN
      /\ s.q \in Nat \ {0} /\ MaxModelLen \in Nat
  BY SizesAre DEF Sized
<1>2. n \in Nat /\ blocksN \in Nat /\ n <= blocksN
  BY <1>1, Pages, BlocksPadded
<1>3. /\ DOMAIN stack = 1..blocksN
      /\ \A t \in 1..blocksN :
            /\ stack[t].page = s.row[IF Width = 1 THEN 0 ELSE t - 1]
            /\ stack[t].shown = build_attention_mask(s, t - 1, cc, aligned)
  BY DEF mask_stack
<1>4. Len(stack) = blocksN
  <2> DEFINE tiles == [t \in 1..blocksN |-> [block |-> IF Width = 1 THEN 0 ELSE t - 1,
                                             shown |-> build_attention_mask(s, t - 1, cc, aligned)]]
  <2>1. stack = [t \in DOMAIN tiles |-> [page |-> s.row[tiles[t].block], shown |-> tiles[t].shown]]
    BY DEF mask_stack
  <2>2. DOMAIN tiles = 1..blocksN
    OBVIOUS
  <2> HIDE DEF tiles, blocksN
  <2>3. stack \in Seq({stack[t] : t \in 1..blocksN})
    BY <1>2, <2>1, <2>2
  <2> QED
    BY <1>2, <1>3, <2>3
<1> HIDE DEF stack, blocksN, aligned, cc
<1>5. ASSUME NEW i \in 0..(aligned - 1), NEW t \in 1..blocksN, NEW o \in Offsets
      PROVE  /\ PosAt(s, t, o) = (t - 1) * BlockSize + o
             /\ <<i, o>> \in stack[t].shown <=> PosAt(s, t, o) \in Sees(s, Clamped(s, i), cc)
  <2>1. t - 1 \in Nat
    BY <1>2
  <2>2. PosAt(s, t, o) = (t - 1) * BlockSize + o
    BY <2>1 DEF PosAt, From
  <2>3. <<i, o>> \in build_attention_mask(s, t - 1, cc, aligned) <=>
           (t - 1) * BlockSize + o \in Sees(s, Clamped(s, i), cc)
    BY <1>1, <2>1, MaskShows
  <2>4. stack[t].shown = build_attention_mask(s, t - 1, cc, aligned)
    BY <1>3
  <2> QED
    BY <2>2, <2>3, <2>4, Zenon
<1>6. ASSUME NEW i \in 0..(aligned - 1), NEW t \in 1..blocksN, NEW o \in Offsets, <<i, o>> \in stack[t].shown
      PROVE  stack[t].page = s.row[PosAt(s, t, o) \div BlockSize]
  <2> DEFINE p == PosAt(s, t, o)
  <2>1. p \div BlockSize = From(s) + (t - 1) /\ p \in Nat
    BY <1>2, PlacesOfSlots
  <2>2. p \div BlockSize = t - 1
    BY <1>2, <2>1 DEF From
  <2>3. p < MaxModelLen
    <3>1. p \in 0..(s.kv - 1)
      BY <1>5, <1>6 DEF Sees
    <3> QED
      BY <1>1, <3>1
  <2> HIDE DEF p
  <2>4. p \div BlockSize \in 0..(Width - 1)
    BY <2>1, <2>3, Column
  <2>5. p \div BlockSize = IF Width = 1 THEN 0 ELSE t - 1
    BY <2>2, <2>4
  <2> QED
    BY <1>3, <2>5 DEF p
<1>7. ASSUME NEW i \in 0..(aligned - 1), NEW p \in Sees(s, Clamped(s, i), cc)
      PROVE  \E t \in 1..blocksN, o \in Offsets : PosAt(s, t, o) = p /\ <<i, o>> \in stack[t].shown
  <2> DEFINE t == p \div BlockSize + 1
             o == p % BlockSize
  <2>1. Clamped(s, i) \in 0..(s.q - 1)
    BY <1>1, SizesAre
  <2>2. /\ p \in Nat /\ p % BlockSize \in Offsets /\ p \div BlockSize \in 0..(n - 1)
        /\ p = (p \div BlockSize) * BlockSize + (p % BlockSize)
    BY <2>1, PageOfPlace DEF From
  <2>3. t \in 1..blocksN /\ t - 1 = p \div BlockSize
    BY <1>2, <2>2
  <2>4. PosAt(s, t, o) = (t - 1) * BlockSize + o
    BY <1>5, <2>2, <2>3
  <2>5. PosAt(s, t, o) = p
    BY <2>2, <2>3, <2>4
  <2> HIDE DEF t, o
  <2> QED
    BY <1>5, <2>2, <2>3, <2>5 DEF o
<1> QED
  BY <1>2, <1>3, <1>4, <1>5, <1>6, <1>7 DEF StackShows, stack, aligned, cc

\* mask_stack with a window: the tiles of the active pages show what it leaves.
LEMMA WindowStack ==
    ASSUME layer \in Layers, NEW s, Sized(s), NEW c \in BOOLEAN, layer.window # 0
    PROVE  /\ StackShows(s, mask_stack(layer, s, c), aligned_query_len(s.q), c /\ aligned_query_len(s.q) > 1)
           /\ Len(mask_stack(layer, s, c)) >= 1
<1> DEFINE aligned == aligned_query_len(s.q)
           n       == CeilDiv(s.kv, BlockSize) - From(s)
           cc      == c /\ aligned > 1
           active  == active_tiles(layer, s, cc, aligned)
           most    == max_active_blocks(layer, pad_num_blocks(layer, CeilDiv(s.kv, BlockSize)), aligned)
           tiles   == pad_tiles(active, most, aligned)
           stack   == mask_stack(layer, s, c)
<1>1. /\ BlockSize \in Nat \ {0} /\ aligned \in Nat \ {0} /\ s.kv \in Nat \ {0} /\ s.kv <= MaxModelLen
      /\ cc \in BOOLEAN /\ s.q \in Nat \ {0} /\ layer.window \in Nat \ {0} /\ From(s) \in Nat
  BY SizesAre DEF Sized
<1>2. n \in Nat \ {0} /\ CeilDiv(s.kv, BlockSize) \in Nat
  <2>1. 0 \in 0..(s.q - 1)
    BY <1>1
  <2>2. CeilDiv(s.kv, BlockSize) \in Nat /\ From(s) < CeilDiv(s.kv, BlockSize)
    BY <2>1, PageOfPlace
  <2> QED
    BY <1>1, <2>2
<1>3. From(s) = first_active(layer, s)
  BY <1>1 DEF From
<1>4. stack = [t \in DOMAIN tiles |-> [page |-> s.row[tiles[t].block], shown |-> tiles[t].shown]]
  BY <1>1 DEF mask_stack
<1>5. most \in Nat
  <2>1. pad_num_blocks(layer, CeilDiv(s.kv, BlockSize)) \in Nat
    BY <1>1, BlocksPadded
  <2>2. layer.window + aligned - 1 \in Nat
    BY <1>1
  <2>3. CeilDiv(layer.window + aligned - 1, BlockSize) \in Nat
    BY <1>1, <2>2, CeilingCovers
  <2> QED
    BY <2>1, <2>3 DEF max_active_blocks, Smaller
<1> DEFINE e(t) == [block |-> From(s) + (t - 1),
                    shown |-> IF is_interior(layer, s, From(s) + (t - 1), cc) THEN zero_tile(aligned)
                              ELSE build_single_tile(layer, s, From(s) + (t - 1), cc, aligned)]
<1>6. active = [t \in 1..n |-> e(t)]
  <2>1. \A t \in 1..n : From(s) + t - 1 = From(s) + (t - 1)
    BY <1>1, <1>2
  <2> QED
    BY <1>3, <2>1 DEF active_tiles
<1> HIDE DEF stack, tiles, most, aligned, cc, n
<1>7. /\ Len(active) = n /\ \A t \in 1..n : active[t] = e(t)
      /\ active \in Seq({active[t] : t \in 1..n})
  <2> HIDE DEF e, active
  <2>1. \A t \in 1..n : active[t] = e(t)
    BY <1>6
  <2>2. active \in [1..n -> {active[t] : t \in 1..n}]
    BY <1>6
  <2>3. active \in Seq({active[t] : t \in 1..n}) /\ Len(active) = n
    BY <1>2, <2>2
  <2> QED
    BY <2>1, <2>3
<1> DEFINE filler == [block |-> active[n].block, shown |-> masked_tile]
           T      == {active[t] : t \in 1..n} \cup {filler}
<1> HIDE DEF active, e
<1>8. /\ Len(tiles) \in Nat /\ DOMAIN tiles = 1..Len(tiles) /\ n <= Len(tiles)
      /\ \A t \in 1..Len(tiles) : IF t <= n THEN tiles[t] = active[t] ELSE tiles[t] = filler
  <2>1. tiles = active \o [i \in 1..(most - n) |-> filler]
    BY <1>7 DEF tiles, pad_tiles
  <2> DEFINE more == most - n
  <2>2. active \in Seq(T) /\ filler \in T /\ more \in Int
    BY <1>2, <1>5, <1>7
  <2> HIDE DEF filler, T, more
  <2> DEFINE p == [i \in 1..more |-> filler]
  <2>3. tiles = active \o p /\ DOMAIN p = 1..more /\ p \in [1..more -> {filler}]
    BY <2>1 DEF more
  <2> HIDE DEF p
  <2>4. /\ Len(tiles) \in Nat /\ DOMAIN tiles = 1..Len(tiles) /\ Len(active) <= Len(tiles)
        /\ \A t \in 1..Len(tiles) : IF t <= Len(active) THEN tiles[t] = active[t] ELSE tiles[t] = filler
    BY <2>2, <2>3, PaddedSequence
  <2>5. Len(active) = n
    BY <1>7
  <2> QED
    BY <2>4, <2>5, Zenon
<1>9. /\ Len(stack) = Len(tiles) /\ DOMAIN stack = 1..Len(tiles)
      /\ \A t \in 1..Len(tiles) : stack[t].page = s.row[tiles[t].block] /\ stack[t].shown = tiles[t].shown
  <2>1. DOMAIN stack = 1..Len(tiles)
    BY <1>4, <1>8
  <2>2. stack \in Seq({stack[t] : t \in 1..Len(tiles)})
    BY <1>4, <1>8
  <2> QED
    BY <1>4, <1>8, <2>1, <2>2
<1> DEFINE k == Len(tiles)
<1>10. ASSUME NEW i \in 0..(aligned - 1), NEW t \in 1..n, NEW o \in Offsets
       PROVE  /\ stack[t].page = s.row[PosAt(s, t, o) \div BlockSize]
              /\ <<i, o>> \in stack[t].shown <=> PosAt(s, t, o) \in Sees(s, Clamped(s, i), cc)
  <2> DEFINE b == From(s) + (t - 1)
  <2>1. b \in Nat /\ t \in Nat \ {0} /\ t \in 1..k
    BY <1>1, <1>2, <1>8
  <2>2. tiles[t] = e(t)
    BY <1>2, <1>7, <1>8, <2>1
  <2>3. stack[t].page = s.row[b] /\ stack[t].shown =
           IF is_interior(layer, s, b, cc) THEN zero_tile(aligned) ELSE build_single_tile(layer, s, b, cc, aligned)
    BY <1>9, <2>1, <2>2 DEF e
  <2>4. PosAt(s, t, o) \div BlockSize = b
    BY <2>1, PlacesOfSlots
  <2>5. PosAt(s, t, o) = b * BlockSize + o
    BY DEF PosAt
  <2> HIDE DEF b
  <2>6. CASE is_interior(layer, s, b, cc)
    <3>1. <<i, o>> \in stack[t].shown
      BY <2>3, <2>6 DEF zero_tile, Cells
    <3>2. i \in Nat /\ layer.window > 0
      BY <1>1
    <3>3. b * BlockSize + o \in Sees(s, Clamped(s, i), cc)
      BY <1>1, <2>1, <2>6, <3>2, InteriorShowsAll
    <3> QED
      BY <2>3, <2>4, <2>5, <3>1, <3>3, Zenon
  <2>7. CASE ~is_interior(layer, s, b, cc)
    <3>1. layer.window > 0 /\ aligned \in Nat
      BY <1>1
    <3>2. <<i, o>> \in build_single_tile(layer, s, b, cc, aligned) <=>
             b * BlockSize + o \in Sees(s, Clamped(s, i), cc)
      BY <1>1, <2>1, <3>1, MaskShows
    <3> QED
      BY <2>3, <2>4, <2>5, <2>7, <3>2, Zenon
  <2> QED
    BY <2>6, <2>7
<1>11. ASSUME NEW t \in 1..k, t \notin 1..n PROVE stack[t].shown = {}
  BY <1>2, <1>8, <1>9, <1>11 DEF masked_tile
<1>12. ASSUME NEW i \in 0..(aligned - 1), NEW t \in 1..k, NEW o \in Offsets, <<i, o>> \in stack[t].shown
       PROVE  /\ PosAt(s, t, o) \in Sees(s, Clamped(s, i), cc)
              /\ stack[t].page = s.row[PosAt(s, t, o) \div BlockSize]
  <2>1. t \in 1..n
    BY <1>11, <1>12
  <2> QED
    BY <1>10, <1>12, <2>1
<1>13. ASSUME NEW i \in 0..(aligned - 1), NEW p \in Sees(s, Clamped(s, i), cc)
       PROVE  \E t \in 1..k, o \in Offsets : PosAt(s, t, o) = p /\ <<i, o>> \in stack[t].shown
  <2> DEFINE t == p \div BlockSize - From(s) + 1
             o == p % BlockSize
  <2>1. Clamped(s, i) \in 0..(s.q - 1)
    BY <1>1, SizesAre
  <2>2. /\ p \in Nat /\ p % BlockSize \in Offsets
        /\ p \div BlockSize \in From(s)..(CeilDiv(s.kv, BlockSize) - 1)
        /\ p = (p \div BlockSize) * BlockSize + (p % BlockSize)
    BY <2>1, PageOfPlace
  <2>3. t \in 1..n /\ From(s) + (t - 1) = p \div BlockSize
    BY <1>1, <1>2, <2>2 DEF n
  <2>4. PosAt(s, t, o) = p
    BY <2>2, <2>3 DEF PosAt
  <2> HIDE DEF t, o
  <2>5. <<i, o>> \in stack[t].shown
    BY <1>10, <2>2, <2>3, <2>4 DEF o
  <2>6. t \in 1..k /\ o \in Offsets
    BY <1>2, <1>8, <2>2, <2>3 DEF o
  <2> QED
    BY <2>4, <2>5, <2>6
<1>14. StackShows(s, stack, aligned, cc)
  <2>1. Len(stack) \in Nat /\ DOMAIN stack = 1..Len(stack) /\ Len(stack) = k
    BY <1>8, <1>9
  <2>2. \A i \in 0..(aligned - 1), t \in 1..Len(stack), o \in Offsets :
           <<i, o>> \in stack[t].shown =>
               /\ PosAt(s, t, o) \in Sees(s, Clamped(s, i), cc)
               /\ stack[t].page = s.row[PosAt(s, t, o) \div BlockSize]
    BY <1>12, <2>1
  <2>3. \A i \in 0..(aligned - 1) : \A p \in Sees(s, Clamped(s, i), cc) :
           \E t \in 1..Len(stack), o \in Offsets : PosAt(s, t, o) = p /\ <<i, o>> \in stack[t].shown
    BY <1>13, <2>1
  <2> QED
    BY <2>1, <2>2, <2>3, Zenon DEF StackShows
<1>15. Len(stack) >= 1
  BY <1>2, <1>8, <1>9
<1> QED
  BY <1>14, <1>15 DEF stack, aligned, cc

\* mask_stack, of either kind.
LEMMA Stacks ==
    ASSUME layer \in Layers, NEW s, Sized(s), NEW c \in BOOLEAN
    PROVE  StackShows(s, mask_stack(layer, s, c), aligned_query_len(s.q), c /\ aligned_query_len(s.q) > 1)
  BY WholeStack, WindowStack

(***************************************************************************)
(* Walks: what a kernel makes of the slots it is shown.                    *)
(***************************************************************************)

\* A walk that looks at each place of V once looks at as many.
LEMMA EachOnce ==
    ASSUME NEW W, NEW V, IsFiniteSet(V), NEW g \in [W -> V],
           \A x, y \in W : g[x] = g[y] => x = y, \A v \in V : \E x \in W : g[x] = v
    PROVE  Cardinality(W) = Cardinality(V)
<1> DEFINE back == [v \in V |-> CHOOSE x \in W : g[x] = v]
<1>1. ASSUME NEW v \in V PROVE back[v] \in W /\ g[back[v]] = v
  <2>1. \E x \in W : g[x] = v
    OBVIOUS
  <2>2. back[v] = CHOOSE x \in W : g[x] = v
    OBVIOUS
  <2> HIDE DEF back
  <2> QED
    BY <2>1, <2>2
<1>2. back \in [V -> W]
  BY <1>1
<1> HIDE DEF back
<1>3. \A v, w \in V : back[v] = back[w] => v = w
  BY <1>1
<1>4. \A x \in W : \E v \in V : back[v] = x
  <2> SUFFICES ASSUME NEW x \in W PROVE back[g[x]] = x
    OBVIOUS
  <2>1. g[x] \in V
    OBVIOUS
  <2> QED
    BY <1>1, <2>1
<1>5. back \in Bijection(V, W)
  BY <1>2, <1>3, <1>4 DEF Bijection, Injection, Surjection, IsInjective
<1>6. ExistsBijection(V, W)
  BY <1>5 DEF ExistsBijection
<1> QED
  BY <1>6, FS_Bijection

\* Every place a sequence's context has holds that sequence's own token.
Holds(s) ==
    \A p \in 0..(s.kv - 1), h \in 0..(layer.heads - 1) :
        memory[LiesAt(layer, s.row[p \div BlockSize], h, p % BlockSize)] = {<<s.of, p, h>>}

\* A row sees its own place, and finitely many.
LEMMA SeesItself ==
    ASSUME layer \in Layers, NEW s, Sized(s), NEW c, NEW i \in 0..(s.q - 1)
    PROVE  Sees(s, i, c) # {} /\ IsFiniteSet(Sees(s, i, c)) /\ Cardinality(Sees(s, i, c)) \in Nat
<1>1. layer.window \in Nat /\ s.q \in Nat \ {0} /\ s.kv \in Nat \ {0} /\ s.q <= s.kv
  BY SizesAre
<1>2. s.kv - s.q + i \in Sees(s, i, c)
  BY <1>1 DEF Sees
<1>3. IsFiniteSet(0..(s.kv - 1))
  BY <1>1, FS_Interval
<1>4. Sees(s, i, c) \in SUBSET (0..(s.kv - 1))
  BY DEF Sees
<1>5. IsFiniteSet(Sees(s, i, c))
  BY <1>3, <1>4, FS_Subset
<1> QED
  BY <1>2, <1>5, FS_CardinalityType

\* A mask without a causal limit shows a lone query what one with it shows.
LEMMA LoneQuery ==
    ASSUME layer \in Layers, NEW s, Sized(s), NEW c \in BOOLEAN, NEW i \in 0..(s.q - 1),
           c => layer.causal, layer.causal => c \/ s.q = 1
    PROVE  Sees(s, i, c) = Sees(s, i, layer.causal)
<1>1. /\ s.q \in Nat \ {0} /\ s.kv \in Nat \ {0} /\ s.q <= s.kv
      /\ layer.causal \in BOOLEAN
  BY SizesAre, LayerAssumption
<1>2. CASE c = layer.causal
  BY <1>2
<1>3. CASE c # layer.causal
  <2>1. s.q = 1 /\ i = 0 /\ ~c
    BY <1>1, <1>3
  <2>2. \A p \in 0..(s.kv - 1) : p <= s.kv - s.q + i
    BY <1>1, <2>1
  <2> QED
    BY <2>1, <2>2 DEF Sees
<1> QED
  BY <1>2, <1>3

\* What a query of a sequence is to be answered.
Answer(s, i, c, h, asked) ==
    [head |-> h, query |-> asked, seen |-> {{<<s.of, p, h>>} : p \in Sees(s, i, c)},
     count |-> Cardinality(Sees(s, i, c))]

\* The slots P of a stack that a row is shown, and where each is read.
AreShown(P, stack, i) ==
    \A p : p \in P <=> p \in (1..Len(stack)) \X Offsets /\ <<i, p[2]>> \in stack[p[1]].shown
AreRead(P, a, stack, h) == \A p \in P : a[p] = LiesAt(layer, stack[p[1]].page, h, p[2])
ArePaired(places, P, a) == \A x : x \in places <=> \E p \in P : x = <<p, a[p]>>

\* What a row of a sequence is shown is its own context, each place of it once.
LEMMA ShownIsSeen ==
    ASSUME layer \in Layers, NEW s, Sized(s), Holds(s), NEW c, NEW stack, NEW aligned \in Nat,
           StackShows(s, stack, aligned, c), NEW i \in 0..(aligned - 1), NEW h \in 0..(layer.heads - 1),
           NEW P, AreShown(P, stack, i), NEW a, AreRead(P, a, stack, h), NEW places, ArePaired(places, P, a),
           NEW asked
    PROVE  P # {} /\ places # {} /\ Result(h, asked, places, memory) = Answer(s, Clamped(s, i), c, h, asked)
<1>0. /\ \A p : p \in P <=> p \in (1..Len(stack)) \X Offsets /\ <<i, p[2]>> \in stack[p[1]].shown
      /\ \A p \in P : a[p] = LiesAt(layer, stack[p[1]].page, h, p[2])
      /\ \A x : x \in places <=> \E p \in P : x = <<p, a[p]>>
  BY Zenon DEF AreShown, AreRead, ArePaired
<1> DEFINE V == Sees(s, Clamped(s, i), c)
           f == [p \in P |-> PosAt(s, p[1], p[2])]
<1>1. Clamped(s, i) \in 0..(s.q - 1) /\ Len(stack) \in Nat
  <2>1. i \in Nat
    OBVIOUS
  <2>3. \A j \in Nat : Clamped(s, j) \in 0..(s.q - 1)
    BY SizesAre, Zenon
  <2>2. Len(stack) \in Nat
    BY DEF StackShows
  <2> QED
    BY <2>1, <2>2, <2>3, Zenon
<1>2. V # {} /\ IsFiniteSet(V)
  BY <1>1, SeesItself
<1>3. ASSUME NEW p \in P
      PROVE  /\ p = <<p[1], p[2]>> /\ p[1] \in 1..Len(stack) /\ p[2] \in Offsets
             /\ f[p] = PosAt(s, p[1], p[2]) /\ f[p] \in V /\ stack[p[1]].page = s.row[f[p] \div BlockSize]
  <2>1. p = <<p[1], p[2]>> /\ p[1] \in 1..Len(stack) /\ p[2] \in Offsets /\ <<i, p[2]>> \in stack[p[1]].shown
    BY <1>0
  <2>2. PosAt(s, p[1], p[2]) \in V /\ stack[p[1]].page = s.row[PosAt(s, p[1], p[2]) \div BlockSize]
    BY <2>1, Zenon DEF StackShows
  <2> HIDE DEF V
  <2> QED
    BY <2>1, <2>2
<1>4. ASSUME NEW v \in V PROVE \E p \in P : f[p] = v
  <2>1. PICK t \in 1..Len(stack), o \in Offsets : PosAt(s, t, o) = v /\ <<i, o>> \in stack[t].shown
    BY DEF StackShows
  <2>2. <<t, o>> \in P
    BY <1>0, <2>1
  <2>3. f[<<t, o>>] = v
    BY <2>1, <2>2
  <2> QED
    BY <2>2, <2>3
<1> HIDE DEF f
<1>5. ASSUME NEW p \in P, NEW r \in P, f[p] = f[r] PROVE p = r
  <2>1. p[1] \in Nat \ {0} /\ r[1] \in Nat \ {0}
    BY <1>1, <1>3
  <2>2. PosAt(s, p[1], p[2]) = PosAt(s, r[1], r[2])
    BY <1>3, <1>5
  <2>3. p[1] = r[1] /\ p[2] = r[2]
    BY <1>3, <2>1, <2>2, PlacesOfSlots
  <2> QED
    BY <1>3, <2>3
<1>6. ASSUME NEW p \in P PROVE memory[a[p]] = {<<s.of, f[p], h>>}
  <2>1. p[1] \in Nat \ {0} /\ p[2] \in Offsets /\ f[p] = PosAt(s, p[1], p[2])
    BY <1>1, <1>3
  <2>2. f[p] % BlockSize = p[2]
    BY <2>1, PlacesOfSlots
  <2>3. f[p] \in 0..(s.kv - 1)
    BY <1>3 DEF Sees
  <2>4. a[p] = LiesAt(layer, s.row[f[p] \div BlockSize], h, f[p] % BlockSize)
    BY <1>0, <1>3, <2>2
  <2> QED
    BY <2>3, <2>4 DEF Holds
<1>7. f \in [P -> V]
  BY <1>3 DEF f
<1> HIDE DEF V
<1>8. P # {}
  BY <1>2, <1>4
<1> DEFINE g    == [x \in places |-> f[x[1]]]
           seen == {{<<s.of, v, h>>} : v \in V}
<1>9. ASSUME NEW x \in places
      PROVE  /\ x[1] \in P /\ x = <<x[1], a[x[1]]>> /\ g[x] = f[x[1]] /\ g[x] \in V
             /\ memory[x[2]] = {<<s.of, g[x], h>>}
  <2>1. PICK p \in P : x = <<p, a[p]>>
    BY <1>0
  <2>2. x[1] = p /\ x[2] = a[p] /\ g[x] = f[p] /\ f[p] \in V
    BY <1>7, <2>1
  <2> QED
    BY <1>6, <2>1, <2>2
<1>10. ASSUME NEW v \in V PROVE \E x \in places : g[x] = v
  <2>1. PICK p \in P : f[p] = v
    BY <1>4
  <2>2. <<p, a[p]>> \in places
    BY <1>0
  <2>3. g[<<p, a[p]>>] = v
    BY <2>1, <2>2
  <2> QED
    BY <2>2, <2>3
<1>11. g \in [places -> V]
  BY <1>9
<1> HIDE DEF g
<1>12. \A x, y \in places : g[x] = g[y] => x = y
  BY <1>5, <1>9
<1>13. Cardinality(places) = Cardinality(V)
  BY <1>2, <1>10, <1>11, <1>12, EachOnce
<1>14. {memory[x[2]] : x \in places} = seen
  <2>1. ASSUME NEW x \in places PROVE memory[x[2]] \in seen
    BY <1>9
  <2>2. ASSUME NEW y \in seen PROVE \E x \in places : y = memory[x[2]]
    <3>1. PICK v \in V : y = {<<s.of, v, h>>}
      OBVIOUS
    <3>2. PICK x \in places : g[x] = v
      BY <1>10
    <3>3. y = memory[x[2]]
      BY <1>9, <3>1, <3>2
    <3> QED
      BY <3>3
  <2> HIDE DEF seen
  <2> QED
    BY <2>1, <2>2
<1>15. places # {}
  BY <1>0, <1>8
<1>16. Result(h, asked, places, memory) =
          [head |-> h, query |-> asked, seen |-> seen, count |-> Cardinality(V)]
  BY <1>13, <1>14, Zenon DEF Result
<1> QED
  BY <1>8, <1>15, <1>16, Zenon DEF Answer, V, seen


\* The cells that slots of a stack name.
CellsOf(stack, h, P) == {<<p, LiesAt(layer, stack[p[1]].page, h, p[2])>> : p \in P}

\* A row of a stack's walk that is shown anything.
LEMMA WalkAnswers ==
    ASSUME layer \in Layers, NEW s, Sized(s), Holds(s), NEW c \in BOOLEAN, c => layer.causal,
           layer.causal => c \/ s.q = 1,
           NEW i \in 0..(aligned_query_len(s.q) - 1), NEW h \in 0..(layer.heads - 1), NEW asked,
           NEW places, places = CellsOf(mask_stack(layer, s, c), h, ShownSlots(mask_stack(layer, s, c), i))
    PROVE  places # {} /\ Result(h, asked, places, memory) = Answer(s, Clamped(s, i), layer.causal, h, asked)
<1> DEFINE stack   == mask_stack(layer, s, c)
           aligned == aligned_query_len(s.q)
           cc      == c /\ aligned > 1
           P       == ShownSlots(stack, i)
           a       == [p \in P |-> LiesAt(layer, stack[p[1]].page, h, p[2])]
<1>1. StackShows(s, stack, aligned, cc)
  BY Stacks
<1>2. aligned \in Nat /\ s.q \in Nat \ {0} /\ s.q <= aligned /\ Clamped(s, i) \in 0..(s.q - 1) /\ cc \in BOOLEAN
  <2>1. i \in Nat
    OBVIOUS
  <2> QED
    BY <2>1, SizesAre
<1> HIDE DEF stack, aligned
<1>3. AreShown(P, stack, i)
  <2>1. DOMAIN stack = 1..Len(stack)
    BY <1>1 DEF StackShows
  <2> QED
    BY <2>1 DEF ShownSlots, AreShown
<1>4. AreRead(P, a, stack, h)
  BY DEF AreRead
<1>5. ArePaired(places, P, a)
  BY <1>4 DEF CellsOf, stack, ArePaired, AreRead
<1> HIDE DEF P, a, cc
<1>6. i \in 0..(aligned - 1)
  BY DEF aligned
<1>7. places # {} /\ Result(h, asked, places, memory) = Answer(s, Clamped(s, i), cc, h, asked)
  <2> HIDE DEF CellsOf
  <2> QED
    BY <1>1, <1>2, <1>3, <1>4, <1>5, <1>6, ShownIsSeen
<1>8. Sees(s, Clamped(s, i), cc) = Sees(s, Clamped(s, i), layer.causal)
  <2>1. cc => layer.causal
    BY DEF cc
  <2>2. layer.causal => cc \/ s.q = 1
    BY <1>2 DEF cc
  <2> QED
    BY <1>2, <2>1, <2>2, LoneQuery
<1> QED
  BY <1>7, <1>8 DEF Answer

\* The three kernels of the loop store a sequence's rows, its last one as often
\* as it is padded, each with its answer.
LEMMA LoopAnswers ==
    ASSUME layer \in Layers, NEW s, Sized(s), Holds(s), NEW c \in BOOLEAN, c => layer.causal,
           layer.causal => c \/ s.q = 1,
           NEW stored, stored = _run_page_attn(layer, s, mask_stack(layer, s, c), query, memory)
    PROVE  /\ \A x \in stored : \E i \in 0..(s.q - 1), h \in 0..(layer.heads - 1) :
                 x = <<s.start + i, Answer(s, i, layer.causal, h, query[s.start + i])>>
           /\ \A i \in 0..(s.q - 1), h \in 0..(layer.heads - 1) :
                 <<s.start + i, Answer(s, i, layer.causal, h, query[s.start + i])>> \in stored
<1> DEFINE stack   == mask_stack(layer, s, c)
           aligned == aligned_query_len(s.q)
           H       == 0..(layer.heads - 1)
           cell(i, h) == <<StoredRow(s, i), Result(h, query[StoredRow(s, i)],
                                                   CellsOf(stack, h, WalkedSlots(stack, i)), memory)>>
           answer(i, h) == <<s.start + i, Answer(s, i, layer.causal, h, query[s.start + i])>>
<1>1. /\ \A x \in stored : \E i \in 0..(aligned - 1), h \in H : x = cell(i, h)
      /\ \A i \in 0..(aligned - 1), h \in H : cell(i, h) \in stored
  <2>1. CASE ~layer.headMajor
    <3>1. \A h, S : by_token(layer, stack, h, S) = CellsOf(stack, h, S)
      BY <2>1 DEF LiesAt, by_token, CellsOf
    <3> DEFINE was(i, h) == <<StoredRow(s, i), Result(h, query[StoredRow(s, i)],
                                   by_token(layer, stack, h, WalkedSlots(stack, i)), memory)>>
    <3>2. stored = page_attn_kernel(layer, s, stack, query, memory)
      BY <2>1 DEF _run_page_attn
    <3>3. ASSUME NEW x \in stored PROVE \E i \in 0..(aligned - 1), h \in H : x = was(i, h)
      BY <3>2 DEF PageWalk, page_attn_kernel
    <3>4. ASSUME NEW i \in 0..(aligned - 1), NEW h \in H PROVE was(i, h) \in stored
      BY <3>2 DEF PageWalk, page_attn_kernel
    <3>5. \A i, h : was(i, h) = cell(i, h)
      BY <3>1
    <3> HIDE DEF was, cell
    <3> QED
      BY <3>3, <3>4, <3>5
  <2>2. CASE layer.headMajor /\ aligned > 1
    <3>1. \A h, S : by_head(layer, stack, h, S) = CellsOf(stack, h, S)
      BY <2>2 DEF LiesAt, by_head, CellsOf
    <3> DEFINE was(i, h) == <<StoredRow(s, i), Result(h, query[StoredRow(s, i)],
                                   by_head(layer, stack, h, WalkedSlots(stack, i)), memory)>>
    <3>2. stored = page_attn_head_major_prefill_kernel(layer, s, stack, query, memory)
      BY <2>2 DEF _run_page_attn
    <3>3. ASSUME NEW x \in stored PROVE \E i \in 0..(aligned - 1), h \in H : x = was(i, h)
      BY <3>2 DEF PageWalk, page_attn_head_major_prefill_kernel
    <3>4. ASSUME NEW i \in 0..(aligned - 1), NEW h \in H PROVE was(i, h) \in stored
      BY <3>2 DEF PageWalk, page_attn_head_major_prefill_kernel
    <3>5. \A i, h : was(i, h) = cell(i, h)
      BY <3>1
    <3> HIDE DEF was, cell
    <3> QED
      BY <3>3, <3>4, <3>5
  <2>3. CASE layer.headMajor /\ ~(aligned > 1)
    <3>1. \A h, S : by_folded_row(layer, stack, h, S) = CellsOf(stack, h, S)
      BY <2>3 DEF LiesAt, by_folded_row, CellsOf, Folded, kv_row_pool, Head_major
    <3> DEFINE was(i, h) == <<StoredRow(s, i), Result(h, query[StoredRow(s, i)],
                                   by_folded_row(layer, stack, h, WalkedSlots(stack, i)), memory)>>
    <3>2. stored = page_attn_head_major_decode_kernel(layer, s, stack, query, memory)
      BY <2>3 DEF _run_page_attn
    <3>3. ASSUME NEW x \in stored PROVE \E i \in 0..(aligned - 1), h \in H : x = was(i, h)
      BY <3>2 DEF PageWalk, page_attn_head_major_decode_kernel
    <3>4. ASSUME NEW i \in 0..(aligned - 1), NEW h \in H PROVE was(i, h) \in stored
      BY <3>2 DEF PageWalk, page_attn_head_major_decode_kernel
    <3>5. \A i, h : was(i, h) = cell(i, h)
      BY <3>1
    <3> HIDE DEF was, cell
    <3> QED
      BY <3>3, <3>4, <3>5
  <2> QED
    BY <2>1, <2>2, <2>3
<1>2. ASSUME NEW i \in 0..(aligned - 1), NEW h \in H PROVE cell(i, h) = answer(Clamped(s, i), h)
  <2>1. StoredRow(s, i) = s.start + Clamped(s, i)
    BY DEF StoredRow, Clamped
  <2> DEFINE lit == CellsOf(stack, h, ShownSlots(stack, i))
  <2>2. lit # {} /\ Result(h, query[StoredRow(s, i)], lit, memory) =
           Answer(s, Clamped(s, i), layer.causal, h, query[StoredRow(s, i)])
    BY WalkAnswers
  <2>3. WalkedSlots(stack, i) = ShownSlots(stack, i)
    BY <2>2 DEF WalkedSlots, CellsOf
  <2> HIDE DEF lit
  <2> QED
    BY <2>1, <2>2, <2>3 DEF lit
<1> HIDE DEF cell, answer
<1>3. aligned \in Nat /\ s.q \in Nat \ {0} /\ s.q <= aligned
  BY SizesAre
<1>4. ASSUME NEW x \in stored PROVE \E i \in 0..(s.q - 1), h \in H : x = answer(i, h)
  <2>1. PICK i \in 0..(aligned - 1), h \in H : x = cell(i, h)
    BY <1>1
  <2>2. Clamped(s, i) \in 0..(s.q - 1)
    <3>1. i \in Nat
      BY <1>3
    <3> QED
      BY <3>1, SizesAre
  <2> QED
    BY <1>2, <2>1, <2>2
<1>5. ASSUME NEW i \in 0..(s.q - 1), NEW h \in H PROVE answer(i, h) \in stored
  <2>1. i \in 0..(aligned - 1) /\ Clamped(s, i) = i
    BY <1>3, SizesAre
  <2>2. cell(i, h) = answer(i, h)
    BY <1>2, <2>1
  <2> QED
    BY <1>1, <2>1, <2>2
<1> QED
  BY <1>4, <1>5 DEF answer

(***************************************************************************)
(* Batched decode.                                                         *)
(***************************************************************************)

\* One of finitely many numbers is no less than the others.
LEMMA MostOfMany ==
    ASSUME NEW n \in Nat \ {0}, NEW f, \A j \in 1..n : f[j] \in Nat
    PROVE  \E j \in 1..n : \A k \in 1..n : f[k] <= f[j]
<1> DEFINE most(m) == \E j \in 1..m : \A k \in 1..m : f[k] <= f[j]
           bad     == {m \in 1..n : ~most(m)}
<1>1. ASSUME NEW m \in 1..n, m = 1 \/ most(m - 1) PROVE most(m)
  <2>1. CASE m = 1
    BY <2>1
  <2>2. CASE m # 1
    <3>1. PICK j \in 1..(m - 1) : \A k \in 1..(m - 1) : f[k] <= f[j]
      BY <1>1, <2>2
    <3>2. \A k \in 1..m : f[k] \in Nat /\ (k \in 1..(m - 1) \/ k = m)
      OBVIOUS
    <3>3. j \in 1..m /\ m \in 1..m
      OBVIOUS
    <3>4. CASE f[m] <= f[j]
      <4>1. \A k \in 1..m : f[k] <= f[j]
        BY <3>1, <3>2, <3>4
      <4> QED
        BY <3>3, <4>1
    <3>5. CASE ~(f[m] <= f[j])
      <4>1. \A k \in 1..m : f[k] <= f[m]
        BY <3>1, <3>2, <3>3, <3>5
      <4> QED
        BY <3>3, <4>1
    <3> QED
      BY <3>4, <3>5
  <2> QED
    BY <2>1, <2>2
<1> HIDE DEF most
<1>2. bad = {}
  <2> SUFFICES ASSUME bad # {} PROVE FALSE
    OBVIOUS
  <2>1. bad \in SUBSET Nat
    OBVIOUS
  <2>2. PICK m \in bad : \A k \in bad : m <= k
    BY <2>1, LeastIsIn
  <2>3. m \in 1..n /\ ~most(m)
    OBVIOUS
  <2>4. m # 1 /\ ~most(m - 1)
    BY <1>1, <2>3
  <2>5. m - 1 \in 1..n /\ ~(m <= m - 1)
    BY <2>3, <2>4
  <2> QED
    BY <2>2, <2>4, <2>5
<1>3. n \in 1..n
  OBVIOUS
<1> QED
  BY <1>2, <1>3 DEF most

\* A number rounded up to a bucket is no less.
LEMMA RoundedUp ==
    ASSUME NEW B \in SUBSET (Nat \ {0}), NEW n \in Nat, RoundUp(n, B) # None
    PROVE  RoundUp(n, B) \in Nat \ {0} /\ n <= RoundUp(n, B)
<1>1. PICK m \in B : n <= m
  BY DEF RoundUp
<1>2. RoundUp(n, B) \in B /\ n <= RoundUp(n, B)
  BY <1>1, RoundsUp
<1> QED
  BY <1>2

\* The tiles a batched decode has of a sequence, and those its stack has.
LEMMA BlocksOf ==
    ASSUME layer \in Layers, NEW s, Sized(s)
    PROVE  /\ blocks_of(layer, s) \in Nat \ {0} /\ blocks_of(layer, s) <= Len(mask_stack(layer, s, FALSE))
           /\ Len(mask_stack(layer, s, FALSE)) \in Nat
<1> DEFINE stack == mask_stack(layer, s, FALSE)
<1>1. BlockSize \in Nat \ {0} /\ s.kv \in Nat \ {0} /\ layer.window \in Nat
  BY SizesAre
<1>2. Len(stack) \in Nat
  BY Stacks DEF StackShows
<1>3. CASE layer.window = 0
  <2>1. CeilDiv(s.kv, BlockSize) \in Nat \ {0} /\ CeilDiv(s.kv, BlockSize) <= Len(stack)
    BY <1>1, <1>3, Pages, WholeStack
  <2> QED
    BY <1>2, <1>3, <2>1 DEF blocks_of
<1>4. CASE layer.window # 0
  <2>1. Len(stack) >= 1
    BY <1>4, WindowStack
  <2>2. blocks_of(layer, s) = Len(stack)
    BY <1>4 DEF blocks_of
  <2>3. \A k \in Nat : k >= 1 => k \in Nat \ {0} /\ k <= k
    OBVIOUS
  <2> QED
    BY <1>2, <2>1, <2>2, <2>3, Zenon
<1> QED
  BY <1>3, <1>4

\* _batched_decode_tensors: the extent of a batch covers every sequence's tiles.
LEMMA BatchExtent ==
    ASSUME layer \in Layers, NEW all, NEW n \in Nat \ {0}, \A s \in 1..n : Sized(all[s]),
           batched_preconditions(layer, all, n), NEW z, z = batched_sizes(layer, all, n)
    PROVE  /\ z.seqs \in Nat \ {0} /\ n <= z.seqs
           /\ z.rows \in Nat \ {0} /\ z.blocks \in Nat \ {0} /\ z.blocks <= z.rows
           /\ z.chunk \in Nat \ {0} /\ z.chunk <= z.rows
           /\ \A s \in 1..n : blocks_of(layer, all[s]) \in Nat \ {0} /\ blocks_of(layer, all[s]) <= z.blocks
<1> DEFINE f      == [s \in 1..n |-> blocks_of(layer, all[s])]
           S      == {blocks_of(layer, all[s]) : s \in 1..n}
           most   == GreatestOf(S)
           padded == RoundUp(n, SeqsBuckets)
           blocksN == RoundUp(most, NumBlocksBuckets(layer))
           chunk  == Larger(1, Smaller(CoreCount \div padded, blocksN))
<1>1. \A s \in 1..n : f[s] \in Nat \ {0} /\ f[s] = blocks_of(layer, all[s])
  BY BlocksOf
<1>2. most \in Nat /\ \A s \in 1..n : f[s] <= most
  <2>1. \E j \in 1..n : \A k \in 1..n : f[k] <= f[j]
    <3> HIDE DEF f
    <3> QED
      BY <1>1, MostOfMany
  <2>2. \A x : x \in S <=> \E s \in 1..n : x = f[s]
    BY <1>1
  <2> HIDE DEF S, f
  <2>3. \E x \in S : \A y \in S : y <= x
    BY <2>1, <2>2
  <2>4. most \in S /\ \A y \in S : y <= most
    BY <2>3, Zenon DEF GreatestOf
  <2> QED
    BY <1>1, <2>2, <2>4
<1>3. SeqsBuckets \in SUBSET (Nat \ {0}) /\ BlocksBuckets \in SUBSET (Nat \ {0}) /\ CoreCount \in Nat
  BY KernelAssumption
<1>4. z = [seqs |-> padded, blocks |-> blocksN, chunk |-> chunk, rows |-> CeilDiv(blocksN, chunk) * chunk]
  BY DEF batched_sizes
<1> HIDE DEF f, S, most, padded, blocksN, chunk
<1>5. z.seqs = padded /\ z.blocks = blocksN /\ z.chunk = chunk /\ z.rows = CeilDiv(blocksN, chunk) * chunk
  BY <1>4
<1>6. padded # None /\ blocksN # None
  BY <1>5 DEF batched_preconditions, padded
<1>7. padded \in Nat \ {0} /\ n <= padded
  BY <1>3, <1>6, RoundedUp DEF padded
<1>8. blocksN \in Nat \ {0} /\ most <= blocksN
  <2>1. NumBlocksBuckets(layer) \in SUBSET (Nat \ {0})
    <3>1. \A b \in BlocksBuckets : Larger(2, b) \in Nat \ {0}
      BY <1>3 DEF Larger
    <3> QED
      BY <1>3, <3>1 DEF NumBlocksBuckets
  <2> QED
    BY <1>2, <1>6, <2>1, RoundedUp DEF blocksN
<1>9. chunk \in Nat \ {0}
  <2>1. CoreCount \div padded \in Nat
    BY <1>3, <1>7, Parts
  <2> QED
    BY <1>8, <2>1 DEF chunk, Larger, Smaller
<1>10. /\ CeilDiv(blocksN, chunk) \in Nat \ {0} /\ blocksN <= CeilDiv(blocksN, chunk) * chunk
       /\ CeilDiv(blocksN, chunk) * chunk \in Nat
  BY <1>8, <1>9, Pages
<1>11. chunk <= CeilDiv(blocksN, chunk) * chunk
  <2> DEFINE k == CeilDiv(blocksN, chunk)
  <2>1. k \in Nat \ {0} /\ 1 <= k
    BY <1>10
  <2> HIDE DEF k
  <2>2. 1 * chunk <= k * chunk
    BY <1>9, <2>1, MoreIsEnough
  <2> QED
    BY <1>9, <2>2 DEF k
<1> QED
  BY <1>1, <1>2, <1>5, <1>7, <1>8, <1>9, <1>10, <1>11

EntriesOf(all, n, z, s) == [b \in 1..z.rows |-> batched_entry(layer, all, n, z, b, s)]

\* Entries that show what a stack shows, the first of them at least "min".
ShowAs(entry, z, stack) ==
    /\ \A p : p \in Lit(entry, z) <=> p \in ShownSlots(stack, 0)
    /\ \A p \in Lit(entry, z) : entry[p[1]].page = stack[p[1]].page
    /\ <<1, 0>> \in Low(entry, z)

\* The entries of a sequence show what its stack shows.
LEMMA EntriesShow ==
    ASSUME layer \in Layers, NEW all, NEW n \in Nat \ {0}, \A s \in 1..n : Sized(all[s]),
           batched_preconditions(layer, all, n), NEW s \in 1..n, all[s].q = 1
    PROVE  LET z == batched_sizes(layer, all, n)
           IN  ShowAs(EntriesOf(all, n, z, s), z, mask_stack(layer, all[s], FALSE))
<1> DEFINE z     == batched_sizes(layer, all, n)
           entry == EntriesOf(all, n, z, s)
           t     == all[s]
           stack == mask_stack(layer, t, FALSE)
           used  == blocks_of(layer, t)
<1>1. Sized(t) /\ 0 \in 0..(t.q - 1)
  BY DEF Sized
<1>2. /\ t.q = 1 /\ aligned_query_len(t.q) = 1 /\ Clamped(t, 0) = 0
      /\ BlockSize \in Nat \ {0} /\ layer.window \in Nat
  <2>1. aligned_query_len(t.q) = 1
    BY DEF aligned_query_len
  <2>2. Clamped(t, 0) = 0
    BY DEF Clamped, Smaller, Larger
  <2> QED
    BY <1>1, <2>1, <2>2, SizesAre
<1>3. StackShows(t, stack, 1, FALSE)
  BY <1>1, <1>2, Stacks
<1>4. used \in Nat \ {0} /\ used <= Len(stack) /\ Len(stack) \in Nat /\ DOMAIN stack = 1..Len(stack)
  BY <1>1, <1>3, BlocksOf DEF StackShows
<1>5. /\ z.rows \in Nat \ {0} /\ z.blocks \in Nat \ {0} /\ z.blocks <= z.rows /\ z.chunk \in Nat \ {0}
      /\ used <= z.blocks
  BY BatchExtent
<1> HIDE DEF z
<1>6. ASSUME NEW b \in 1..z.rows
      PROVE  IF b > used THEN entry[b].shown = {}
             ELSE /\ entry[b].page = stack[b].page /\ entry[b].hidden = "min"
                  /\ \A o : o \in entry[b].shown <=> o \in Offsets /\ <<0, o>> \in stack[b].shown
  <2>1. entry[b] = batched_entry(layer, all, n, z, b, s)
    BY DEF EntriesOf
  <2>2. ~(s > n) /\ Smaller(used, z.blocks) = used
    BY <1>4, <1>5 DEF Smaller
  <2> HIDE DEF used
  <2>3. CASE b > used
    BY <2>1, <2>2, <2>3 DEF batched_entry, used
  <2>4. CASE ~(b > used)
    <3>1. entry[b] = [page |-> stack[b].page, hidden |-> "min",
                      shown |-> {o \in Offsets : <<0, o>> \in stack[b].shown}]
      BY <2>1, <2>2, <2>4 DEF batched_entry, used
    <3> DEFINE page  == stack[b].page
               shown == {o \in Offsets : <<0, o>> \in stack[b].shown}
    <3>4. entry[b] = [page |-> page, hidden |-> "min", shown |-> shown]
      BY <3>1
    <3> HIDE DEF page, shown
    <3>5. entry[b].page = page /\ entry[b].hidden = "min" /\ entry[b].shown = shown
      BY <3>4
    <3>2. /\ entry[b].page = stack[b].page /\ entry[b].hidden = "min"
          /\ entry[b].shown = {o \in Offsets : <<0, o>> \in stack[b].shown}
      BY <3>5, Zenon DEF page, shown
    <3> HIDE DEF stack
    <3>3. \A o : o \in entry[b].shown <=> o \in Offsets /\ <<0, o>> \in stack[b].shown
      BY <3>2
    <3> QED
      BY <2>4, <3>2, <3>3, Zenon
  <2> QED
    BY <2>3, <2>4
<1> HIDE DEF stack, used, t, entry
<1>7. ASSUME NEW p \in Lit(entry, z)
      PROVE  p \in ShownSlots(stack, 0) /\ entry[p[1]].page = stack[p[1]].page
  <2>1. p \in (1..z.rows) \X Offsets /\ p[1] \in 1..z.rows /\ p[2] \in entry[p[1]].shown
    BY DEF Lit, Slots
  <2>2. ~(p[1] > used)
    BY <1>6, <2>1
  <2>3. entry[p[1]].page = stack[p[1]].page /\ p[2] \in Offsets /\ <<0, p[2]>> \in stack[p[1]].shown
    BY <1>6, <2>1, <2>2
  <2>4. p \in (1..Len(stack)) \X Offsets
    BY <1>4, <1>5, <2>1, <2>2
  <2> QED
    BY <1>4, <2>3, <2>4 DEF ShownSlots
<1>8. ASSUME NEW p \in ShownSlots(stack, 0) PROVE p \in Lit(entry, z)
  <2>1. p \in (1..Len(stack)) \X Offsets /\ p[1] \in 1..Len(stack) /\ p[2] \in Offsets /\ <<0, p[2]>> \in stack[p[1]].shown
    BY <1>4 DEF ShownSlots
  <2>2. p[1] <= used
    <3>1. CASE layer.window = 0
      <4>1. PosAt(t, p[1], p[2]) \in Sees(t, 0, FALSE)
        <5>1. 0 \in 0..(1 - 1)
          OBVIOUS
        <5> QED
          BY <1>2, <1>3, <2>1, <5>1, Zenon DEF StackShows
      <4>2. PosAt(t, p[1], p[2]) \div BlockSize <= CeilDiv(t.kv, BlockSize) - 1
        <5>1. \A x \in Sees(t, 0, FALSE) :
                 x \div BlockSize \in From(t)..(CeilDiv(t.kv, BlockSize) - 1) /\ CeilDiv(t.kv, BlockSize) \in Nat
          BY <1>1, PageOfPlace
        <5>2. From(t) \in Nat
          BY <1>1, SizesAre
        <5> DEFINE x == PosAt(t, p[1], p[2]) \div BlockSize
        <5>3. x \in From(t)..(CeilDiv(t.kv, BlockSize) - 1) /\ CeilDiv(t.kv, BlockSize) \in Nat
          BY <4>1, <5>1, Zenon
        <5> HIDE DEF x
        <5>4. x <= CeilDiv(t.kv, BlockSize) - 1
          BY <5>2, <5>3
        <5> QED
          BY <5>4 DEF x
      <4>3. PosAt(t, p[1], p[2]) \div BlockSize = From(t) + (p[1] - 1)
        <5>1. p[1] \in Nat \ {0}
          BY <1>4, <2>1
        <5> QED
          BY <1>1, <2>1, <5>1, PlacesOfSlots
      <4>4. From(t) = 0 /\ used = CeilDiv(t.kv, BlockSize)
        BY <3>1 DEF From, used, blocks_of
      <4> QED
        BY <1>4, <2>1, <4>2, <4>3, <4>4
    <3>2. CASE layer.window # 0
      <4>1. used = Len(stack)
        BY <3>2 DEF used, blocks_of, stack
      <4> QED
        BY <1>4, <2>1, <4>1
    <3> QED
      BY <3>1, <3>2
  <2>3. p[1] \in 1..z.rows
    BY <1>4, <1>5, <2>1, <2>2
  <2>4. p[2] \in entry[p[1]].shown
    <3>1. ~(p[1] > used)
      BY <1>4, <2>1, <2>2
    <3> QED
      BY <1>6, <2>1, <2>3, <3>1
  <2> QED
    BY <2>1, <2>3, <2>4 DEF Lit, Slots
<1>9. <<1, 0>> \in Low(entry, z)
  <2>1. 1 \in 1..z.rows /\ ~(1 > used) /\ 0 \in Offsets
    BY <1>2, <1>4, <1>5 DEF Offsets
  <2>2. entry[1].hidden = "min"
    BY <1>6, <2>1
  <2> QED
    BY <2>1, <2>2 DEF Low, Slots
<1>10. ShowAs(entry, z, stack)
  BY <1>7, <1>8, <1>9, Zenon DEF ShowAs
<1> QED
  BY <1>10 DEF stack, t, z, entry

\* A row of the batch that is a sequence's gets that sequence's answer.
LEMMA RealRowAnswers ==
    ASSUME layer \in Layers, NEW all, NEW n \in Nat \ {0}, \A s \in 1..n : Sized(all[s]),
           batched_preconditions(layer, all, n), NEW z, z = batched_sizes(layer, all, n),
           NEW s \in 1..n, all[s].q = 1, Holds(all[s]), NEW h \in 0..(layer.heads - 1), NEW asked
    PROVE  _run_batched_decode(layer, all, n, z, s, h, asked, memory) = Answer(all[s], 0, layer.causal, h, asked)
<1> DEFINE t     == all[s]
           stack == mask_stack(layer, t, FALSE)
           entry == [b \in 1..z.rows |-> batched_entry(layer, all, n, z, b, s)]
           lit   == Lit(entry, z)
           low   == Low(entry, z)
           at    == At(entry, lit, layer, h)
<1>1. /\ \A p : p \in lit <=> p \in ShownSlots(stack, 0)
      /\ \A p \in lit : entry[p[1]].page = stack[p[1]].page
      /\ <<1, 0>> \in low
  <2>1. entry = EntriesOf(all, n, z, s)
    BY DEF EntriesOf
  <2> HIDE DEF entry
  <2>2. ShowAs(entry, z, stack)
    BY <2>1, EntriesShow
  <2> QED
    BY <2>2, Zenon DEF ShowAs
<1>2. Sized(t) /\ t.q = 1 /\ Holds(t)
  OBVIOUS
<1>3. aligned_query_len(t.q) = 1 /\ Clamped(t, 0) = 0
  BY DEF aligned_query_len, Clamped, Smaller, Larger
<1>4. z.chunk \in Nat \ {0}
  BY BatchExtent
<1>5. _run_batched_decode(layer, all, n, z, s, h, asked, memory) =
         IF layer.headMajor THEN batched_decode_head_major_kernel(layer, entry, z, h, asked, memory)
         ELSE batched_decode_kernel(layer, entry, z, h, asked, memory)
  BY DEF _run_batched_decode
<1> HIDE DEF t, stack, entry
<1>6. at = CellsOf(stack, h, ShownSlots(stack, 0))
  <2>1. \A x : x \in at <=> x \in CellsOf(stack, h, ShownSlots(stack, 0))
    BY <1>1 DEF At, CellsOf
  <2> HIDE DEF at
  <2> QED
    BY <2>1
<1> HIDE DEF lit, low, at
<1>7. at # {} /\ Result(h, asked, at, memory) = Answer(t, 0, layer.causal, h, asked)
  <2>1. 0 \in 0..(aligned_query_len(t.q) - 1)
    BY <1>3
  <2>2. at # {} /\ Result(h, asked, at, memory) = Answer(t, Clamped(t, 0), layer.causal, h, asked)
    <3> DEFINE c == FALSE
    <3>1. c \in BOOLEAN /\ (c => layer.causal) /\ (layer.causal => c \/ t.q = 1)
      BY <1>2
    <3>2. stack = mask_stack(layer, t, c)
      BY DEF stack
    <3> HIDE DEF c
    <3>3. at = CellsOf(mask_stack(layer, t, c), h, ShownSlots(mask_stack(layer, t, c), 0))
      BY <1>6, <3>2
    <3> QED
      BY <1>2, <2>1, <3>1, <3>3, WalkAnswers
  <2> QED
    BY <1>3, <2>2
<1>8. lit # {}
  BY <1>7 DEF at, At
<1>9. batched_decode_kernel(layer, entry, z, h, asked, memory) = Result(h, asked, at, memory)
  <2>1. <<1, 0>> \in {p \in lit \cup low : p[1] <= z.chunk}
    BY <1>1, <1>4
  <2>2. {p \in lit \cup low : p[1] <= z.chunk} # {}
    BY <2>1
  <2> QED
    BY <1>8, <2>2, Zenon DEF batched_decode_kernel, lit, low, at
<1>10. batched_decode_head_major_kernel(layer, entry, z, h, asked, memory) = Result(h, asked, at, memory)
  BY <1>8, <1>9, Zenon DEF batched_decode_head_major_kernel, _entry_local_update, lit, at
<1> QED
  BY <1>5, <1>7, <1>9, <1>10 DEF t

\* A row that pads the batch gets a mean over what it is shown last, a number.
LEMMA PaddedRowIsFinite ==
    ASSUME layer \in Layers, NEW all, NEW n \in Nat \ {0}, \A s \in 1..n : Sized(all[s]),
           batched_preconditions(layer, all, n), NEW z, z = batched_sizes(layer, all, n),
           NEW s \in Nat, s > n, NEW h, NEW asked
    PROVE  _run_batched_decode(layer, all, n, z, s, h, asked, memory).count >= 0
<1> DEFINE entry == [b \in 1..z.rows |-> batched_entry(layer, all, n, z, b, s)]
           lit   == Lit(entry, z)
           low   == Low(entry, z)
<1>1. z.chunk \in Nat \ {0} /\ z.rows \in Nat \ {0} /\ z.chunk <= z.rows
  BY BatchExtent
<1>2. \A b \in 1..z.rows : entry[b].shown = {} /\ (b = 1 => entry[b].hidden = "min")
  BY DEF batched_entry, padding_mask
<1>3. _run_batched_decode(layer, all, n, z, s, h, asked, memory) =
         IF layer.headMajor THEN batched_decode_head_major_kernel(layer, entry, z, h, asked, memory)
         ELSE batched_decode_kernel(layer, entry, z, h, asked, memory)
  BY DEF _run_batched_decode
<1> HIDE DEF entry
<1>4. lit = {}
  BY <1>2 DEF Lit, Slots
<1>5. <<1, 0>> \in low
  <2>1. 1 \in 1..z.rows /\ 0 \in Offsets
    BY <1>1, KernelAssumption DEF Offsets
  <2> QED
    BY <1>2, <2>1 DEF Low, Slots
<1>6. ASSUME NEW S \in SUBSET Slots(z) PROVE Result(h, asked, At(entry, S, layer, h), memory).count >= 0
  <2> DEFINE W == At(entry, S, layer, h)
             g == [x \in W |-> x[1]]
             f == [p \in S |-> LiesAt(layer, entry[p[1]].page, h, p[2])]
  <2>1. IsFiniteSet(Slots(z))
    <3>4. 1 \in Int /\ z.rows \in Int
      BY <1>1
    <3>1. IsFiniteSet(1..z.rows)
      BY <3>4, FS_Interval
    <3>2. BlockSize - 1 \in Int
      BY KernelAssumption
    <3>3. IsFiniteSet(Offsets)
      BY <3>2, FS_Interval DEF Offsets
    <3> QED
      BY <3>1, <3>3, FS_Product DEF Slots
  <2>2. IsFiniteSet(S)
    BY <2>1, FS_Subset
  <2>3. \A x : x \in W <=> \E p \in S : x = <<p, f[p]>>
    BY DEF At
  <2> HIDE DEF W, f
  <2>4. \A x \in W : g[x] \in S /\ g[x] = x[1] /\ x = <<x[1], f[x[1]]>>
    BY <2>3
  <2>5. \A p \in S : <<p, f[p]>> \in W /\ g[<<p, f[p]>>] = p
    BY <2>3
  <2>6. g \in [W -> S]
    BY <2>4
  <2> HIDE DEF g
  <2>7. \A x, y \in W : g[x] = g[y] => x = y
    BY <2>4
  <2>8. \A p \in S : \E x \in W : g[x] = p
    BY <2>5
  <2>9. Cardinality(W) = Cardinality(S)
    BY <2>2, <2>6, <2>7, <2>8, EachOnce
  <2>10. Cardinality(S) \in Nat
    BY <2>2, FS_CardinalityType
  <2>11. Result(h, asked, W, memory).count = Cardinality(W)
    BY DEF Result
  <2> QED
    BY <2>9, <2>10, <2>11 DEF W
<1>7. batched_decode_kernel(layer, entry, z, h, asked, memory).count >= 0
  <2>1. low \in SUBSET Slots(z)
    BY DEF Low
  <2>2. <<1, 0>> \in {p \in lit \cup low : p[1] <= z.chunk}
    BY <1>1, <1>5
  <2> HIDE DEF lit, low
  <2>3. {p \in lit \cup low : p[1] <= z.chunk} # {}
    BY <2>2
  <2>4. batched_decode_kernel(layer, entry, z, h, asked, memory) = Result(h, asked, At(entry, low, layer, h), memory)
    BY <1>4, <2>3, Zenon DEF batched_decode_kernel, lit, low
  <2> QED
    BY <1>6, <2>1, <2>4
<1>8. batched_decode_head_major_kernel(layer, entry, z, h, asked, memory).count >= 0
  <2>1. CASE z.rows > z.chunk
    <3>1. _entry_local_update(entry, z) = Slots(z)
      BY <1>4, Zenon DEF _entry_local_update
    <3>2. batched_decode_head_major_kernel(layer, entry, z, h, asked, memory) =
             Result(h, asked, At(entry, Slots(z), layer, h), memory)
      BY <2>1, <3>1, Zenon DEF batched_decode_head_major_kernel
    <3> QED
      BY <1>6, <3>2
  <2>2. CASE ~(z.rows > z.chunk)
    BY <1>7, <2>2, Zenon DEF batched_decode_head_major_kernel
  <2> QED
    BY <2>1, <2>2
<1> QED
  BY <1>3, <1>7, <1>8

\* What the batched kernels store.
LEMMA BatchAnswers ==
    ASSUME layer \in Layers, NEW all, NEW n \in Nat \ {0},
           \A s \in 1..n : Sized(all[s]) /\ all[s].q = 1 /\ Holds(all[s]),
           batched_preconditions(layer, all, n), NEW stored, stored = batched_decode(layer, all, n, query, memory)
    PROVE  /\ \A x \in stored : \E s \in Nat \ {0}, h \in 0..(layer.heads - 1) : \E v :
                 /\ x = <<s - 1, v>> /\ v.count >= 0
                 /\ s <= n => v = Answer(all[s], 0, layer.causal, h, query[all[s].start])
           /\ \A s \in 1..n, h \in 0..(layer.heads - 1) :
                 <<s - 1, Answer(all[s], 0, layer.causal, h, query[all[s].start])>> \in stored
<1> DEFINE z    == batched_sizes(layer, all, n)
           H    == 0..(layer.heads - 1)
           most == IF z.seqs <= StagingRows THEN z.seqs ELSE n
           asked(s) == query[IF s <= n THEN all[s].start ELSE 0]
           v(s, h)  == _run_batched_decode(layer, all, n, z, s, h, asked(s), memory)
<1>1. /\ \A x \in stored : \E s \in 1..most, h \in H : x = <<s - 1, v(s, h)>>
      /\ \A s \in 1..most, h \in H : <<s - 1, v(s, h)>> \in stored
  BY DEF batched_decode
<1>2. most \in Nat \ {0} /\ n <= most
  BY BatchExtent
<1>3. ASSUME NEW s \in 1..n, NEW h \in H PROVE v(s, h) = Answer(all[s], 0, layer.causal, h, query[all[s].start])
  <2>1. asked(s) = query[all[s].start]
    OBVIOUS
  <2> HIDE DEF asked, z
  <2>2. z = batched_sizes(layer, all, n)
    BY DEF z
  <2>3. v(s, h) = Answer(all[s], 0, layer.causal, h, asked(s))
    BY <2>2, RealRowAnswers
  <2> QED
    BY <2>1, <2>3
<1>4. ASSUME NEW s \in Nat, s > n, NEW h \in H PROVE v(s, h).count >= 0
  <2> HIDE DEF asked, z
  <2>2. z = batched_sizes(layer, all, n)
    BY DEF z
  <2> QED
    BY <1>4, <2>2, PaddedRowIsFinite
<1>5. ASSUME NEW s \in 1..n, NEW h \in H, NEW a PROVE Answer(all[s], 0, layer.causal, h, a).count >= 0
  <2>1. Sized(all[s]) /\ 0 \in 0..(all[s].q - 1)
    BY DEF Sized
  <2>2. Cardinality(Sees(all[s], 0, layer.causal)) \in Nat
    BY <2>1, SeesItself
  <2> QED
    BY <2>2 DEF Answer
<1> HIDE DEF v, most, z
<1>6. ASSUME NEW x \in stored
      PROVE  \E s \in Nat \ {0}, h \in H : \E w :
                /\ x = <<s - 1, w>> /\ w.count >= 0
                /\ s <= n => w = Answer(all[s], 0, layer.causal, h, query[all[s].start])
  <2>1. PICK s \in 1..most, h \in H : x = <<s - 1, v(s, h)>>
    BY <1>1
  <2>2. s \in Nat \ {0} /\ (s <= n => s \in 1..n) /\ (s \in 1..n \/ s > n)
    BY <1>2
  <2>3. v(s, h).count >= 0
    BY <1>3, <1>4, <1>5, <2>2
  <2>4. s <= n => v(s, h) = Answer(all[s], 0, layer.causal, h, query[all[s].start])
    BY <1>3, <2>2
  <2> QED
    BY <2>1, <2>2, <2>3, <2>4
<1>7. ASSUME NEW s \in 1..n, NEW h \in H
      PROVE  <<s - 1, Answer(all[s], 0, layer.causal, h, query[all[s].start])>> \in stored
  <2>1. s \in 1..most
    BY <1>2
  <2> QED
    BY <1>1, <1>3, <2>1
<1> QED
  BY <1>6, <1>7

(***************************************************************************)
(* What a step is given.                                                   *)
(***************************************************************************)

\* The metadata of a step: each sequence is a request of the batch with its
\* tokens, its row and its part of the query rows, in order; those that may be
\* batched lead with one token each; and a mask without a causal limit is for
\* steps of one token per sequence.
Sequence(s) ==
    /\ s.of \in Batch /\ s.q = scheduled[s.of] /\ s.kv = Reach(s.of) /\ s.row = table[row[s.of]]
    /\ s.start \in Nat /\ s.start + s.q <= Budget
    /\ \A k \in 0..(s.q - 1) : query[s.start + k] = <<s.of, s.kv - s.q + k>>

StepInv ==
    phase # "idle" =>
        /\ Len(seqs) \in Nat /\ DOMAIN seqs = 1..Len(seqs)
        /\ \A n \in 1..Len(seqs) : Sequence(seqs[n])
        /\ \A m, n \in 1..Len(seqs) : m < n => seqs[m].start + seqs[m].q <= seqs[n].start
        /\ decodes \in 0..Len(seqs) /\ \A n \in 1..decodes : seqs[n].q = 1 /\ seqs[n].start = n - 1
        /\ causal \in BOOLEAN /\ (causal => layer.causal)
        /\ layer.causal => causal \/ \A n \in 1..Len(seqs) : seqs[n].q = 1

\* Decodes lead: those counted are the first ones.
LEMMA LeadingOnes ==
    ASSUME NEW n \in Nat, NEW D \in SUBSET (1..n), \A i \in D : \A j \in 1..i : j \in D
    PROVE  Cardinality(D) \in 0..n /\ D = 1..Cardinality(D)
<1>1. CASE D = 1..n
  <2>1. 1 \in Int /\ n \in Int
    OBVIOUS
  <2>2. Cardinality(1..n) = IF 1 > n THEN 0 ELSE n - 1 + 1
    BY <2>1, FS_Interval
  <2> QED
    BY <1>1, <2>2
<1>2. CASE D # 1..n
  <2> DEFINE others == (1..n) \ D
  <2>0. \E k \in 1..n : k \notin D
    <3> SUFFICES ASSUME \A k \in 1..n : k \in D PROVE FALSE
      OBVIOUS
    <3>1. \A k : k \in D <=> k \in 1..n
      OBVIOUS
    <3> QED
      BY <1>2, <3>1
  <2>1. others \in SUBSET Nat /\ others # {}
    BY <2>0
  <2>2. PICK m \in others : \A k \in others : m <= k
    BY <2>1, LeastIsIn
  <2>3. m \in 1..n /\ m \notin D
    OBVIOUS
  <2>4. D = 1..(m - 1)
    <3>1. ASSUME NEW i \in D PROVE i \in 1..(m - 1)
      <4>1. i \in 1..n /\ \A j \in 1..i : j \in D
        OBVIOUS
      <4>2. ~(m <= i)
        BY <2>3, <4>1
      <4> QED
        BY <2>3, <4>1, <4>2
    <3>2. ASSUME NEW i \in 1..(m - 1) PROVE i \in D
      <4>1. i \in 1..n /\ ~(m <= i)
        BY <2>3
      <4> QED
        BY <2>2, <4>1
    <3> QED
      BY <3>1, <3>2
  <2>5. 1 \in Int /\ m - 1 \in Int
    BY <2>3
  <2>6. Cardinality(1..(m - 1)) = IF 1 > m - 1 THEN 0 ELSE m - 1 - 1 + 1
    BY <2>5, FS_Interval
  <2>7. Cardinality(1..(m - 1)) = m - 1
    BY <2>3, <2>6
  <2> HIDE DEF others
  <2> QED
    BY <2>3, <2>4, <2>7
<1> QED
  BY <1>1, <1>2

\* split_decodes_and_prefills: a decode's row is its place among them.
LEMMA DecodesLead ==
    ASSUME Inv, NEW order \in Orders
    PROVE  /\ Decodes(order) \in 0..Len(order)
           /\ \A i \in 1..Decodes(order) : scheduled[order[i]] = 1 /\ Start(order, i) = i - 1
<1> DEFINE n == Len(order)
           D == {i \in DOMAIN order : \A j \in 1..i : IsDecode(order[j])}
           d == Decodes(order)
<1>1. n \in Nat /\ DOMAIN order = 1..n
  BY OrderType
<1>2. D \in SUBSET (1..n) /\ \A i \in D : \A j \in 1..i : j \in D
  BY <1>1
<1>3. d = Cardinality(D)
  BY DEF Decodes
<1>4. \A i \in D : IsDecode(order[i])
  BY <1>1
<1> HIDE DEF D, d
<1>5. d \in 0..n /\ D = 1..d
  BY <1>1, <1>2, <1>3, LeadingOnes
<1>6. \A i \in 1..d : scheduled[order[i]] = 1
  BY <1>4, <1>5 DEF IsDecode
<1> DEFINE late == {i \in 1..d : Start(order, i) # i - 1}
<1>7. late = {}
  <2> SUFFICES ASSUME late # {} PROVE FALSE
    OBVIOUS
  <2>1. late \in SUBSET Nat
    BY <1>5
  <2>2. PICK i \in late : \A j \in late : i <= j
    BY <2>1, LeastIsIn
  <2>3. i \in 1..d /\ Start(order, i) # i - 1
    OBVIOUS
  <2>4. i # 1
    BY <2>3, Starts
  <2>5. i - 1 \in 1..d /\ ~(i <= i - 1) /\ i - 1 \in 1..n /\ (i - 1) + 1 = i
    BY <1>1, <1>5, <2>3, <2>4
  <2>6. Start(order, i - 1) = (i - 1) - 1
    BY <2>2, <2>5
  <2>7. \A k \in 1..n : Start(order, k + 1) = Start(order, k) + scheduled[order[k]]
    BY Starts
  <2>8. Start(order, (i - 1) + 1) = Start(order, i - 1) + scheduled[order[i - 1]]
    BY <2>5, <2>7, Zenon
  <2> QED
    BY <1>5, <1>6, <2>3, <2>5, <2>6, <2>8
<1> HIDE DEF n
<1> QED
  BY <1>5, <1>6, <1>7 DEF d, n

\* build gives each sequence what is its request's.
LEMMA BuildSteps == ASSUME Inv, Build PROVE StepInv'
<1> DEFINE seqOf(order) == [i \in DOMAIN order |->
                [q |-> scheduled[order[i]], kv |-> computed[order[i]] + scheduled[order[i]],
                 row |-> table[row[order[i]]], start |-> Start(order, i), of |-> order[i]]]
<1>1. UNCHANGED <<layer, pool, request, plan>>
  BY DEF Build
<1>2. PICK order \in Orders :
         /\ seqs' = seqOf(order) /\ decodes' = Decodes(order)
         /\ causal' = (layer.causal /\ \E r \in Requests : scheduled[r] > 1)
         /\ query' = [i \in 0..(StagingRows - 1) |->
                         IF i < Len(Tokens(order)) THEN Tokens(order)[i + 1] ELSE Junk]
  BY DEF Build
<1> DEFINE n == Len(order)
<1>3. /\ layer' = layer /\ scheduled' = scheduled /\ computed' = computed /\ table' = table /\ row' = row
      /\ Batch' = Batch /\ \A r : Reach(r)' = Reach(r)
  <2>1. layer' = layer /\ scheduled' = scheduled /\ computed' = computed /\ table' = table /\ row' = row
    BY <1>1 DEF pool, request, plan
  <2> QED
    BY <2>1 DEF Batch, Reach
<1>4. /\ n \in Nat /\ DOMAIN order = 1..n /\ \A i \in 1..n : order[i] \in Batch
  BY OrderType
<1>5. DOMAIN seqs' = 1..n /\ Len(seqs') = n
  <2>1. DOMAIN seqs' = 1..n
    BY <1>2, <1>4
  <2>2. seqs' \in Seq({seqs'[i] : i \in 1..n})
    BY <1>2, <1>4
  <2> QED
    BY <1>4, <2>1, <2>2
<1>6. ASSUME NEW i \in 1..n
      PROVE  /\ seqs'[i].q = scheduled[order[i]] /\ seqs'[i].kv = Reach(order[i])
             /\ seqs'[i].row = table[row[order[i]]] /\ seqs'[i].start = Start(order, i)
             /\ seqs'[i].of = order[i]
  BY <1>2, <1>4 DEF Reach
<1> HIDE DEF n, seqOf
<1>7. ASSUME NEW i \in 1..n
      PROVE  /\ order[i] \in Requests /\ scheduled[order[i]] \in 1..Budget /\ computed[order[i]] \in Nat
             /\ Reach(order[i]) - scheduled[order[i]] = computed[order[i]]
  <2>1. order[i] \in Requests /\ scheduled[order[i]] > 0
    BY <1>4 DEF Batch
  <2>2. scheduled[order[i]] \in 0..Budget /\ computed[order[i]] \in Nat /\ Budget \in Nat
    BY <2>1, Types DEF Inv
  <2> QED
    BY <2>1, <2>2 DEF Reach
<1>8. /\ \A i \in 1..(n + 1) : Start(order, i) \in Nat
      /\ Start(order, n + 1) <= Budget
      /\ \A i \in 1..n : Start(order, i + 1) = Start(order, i) + scheduled[order[i]]
      /\ \A i, j \in 1..(n + 1) : i <= j => Start(order, i) <= Start(order, j)
  BY Starts DEF n
<1>9. Budget \in Nat /\ StagingRows = Budget + 1
  BY StepAssumption, KernelAssumption, Types DEF Inv
<1>10. ASSUME NEW i \in 1..n
       PROVE  /\ Start(order, i) \in Nat /\ Start(order, i + 1) \in Nat /\ Start(order, i + 1) <= Budget
              /\ Start(order, i + 1) = Start(order, i) + scheduled[order[i]]
  <2>1. i \in 1..(n + 1) /\ i + 1 \in 1..(n + 1) /\ n + 1 \in 1..(n + 1) /\ i + 1 <= n + 1
    BY <1>4
  <2>2. Start(order, i + 1) <= Start(order, n + 1) /\ Start(order, n + 1) \in Nat
    BY <1>8, <2>1, Zenon
  <2> QED
    BY <1>8, <1>9, <2>1, <2>2
<1>11. ASSUME NEW i \in 1..n, NEW k \in 0..(scheduled[order[i]] - 1)
       PROVE  query'[Start(order, i) + k] = <<order[i], computed[order[i]] + k>>
  <2> DEFINE t == Start(order, i) + k
  <2>1. t + 1 \in 1..Len(Tokens(order)) /\ Tokens(order)[t + 1] = <<order[i], computed[order[i]] + k>>
        /\ Len(Tokens(order)) \in 0..Budget
    BY TokensListed DEF n
  <2>2. t \in 0..(StagingRows - 1) /\ t < Len(Tokens(order))
    BY <1>7, <1>9, <1>10, <2>1
  <2> HIDE DEF t
  <2> QED
    BY <1>2, <2>1, <2>2 DEF t
<1>12. ASSUME NEW i \in 1..n PROVE Sequence(seqs[i])'
  <2> DEFINE s == seqs'[i]
  <2>1. /\ s.of \in Batch' /\ s.q = scheduled'[s.of] /\ s.kv = Reach(s.of) /\ s.row = table'[row'[s.of]]
        /\ s.start \in Nat /\ s.start + s.q <= Budget
    BY <1>3, <1>4, <1>6, <1>7, <1>10
  <2>2. ASSUME NEW k \in 0..(s.q - 1) PROVE query'[s.start + k] = <<s.of, s.kv - s.q + k>>
    BY <1>6, <1>7, <1>11
  <2> HIDE DEF s
  <2>3. s.kv = computed'[s.of] + scheduled'[s.of]
    BY <1>3, <2>1 DEF Reach
  <2> QED
    BY <2>1, <2>2, <2>3 DEF Sequence, Reach, s
<1>13. ASSUME NEW i \in 1..n, NEW j \in 1..n, i < j PROVE seqs'[i].start + seqs'[i].q <= seqs'[j].start
  <2>1. i + 1 \in 1..(n + 1) /\ j \in 1..(n + 1) /\ i + 1 <= j
    BY <1>4, <1>13
  <2>2. Start(order, i + 1) <= Start(order, j)
    BY <1>8, <2>1
  <2> QED
    BY <1>6, <1>10, <2>2
<1>14. /\ decodes' \in 0..n /\ \A i \in 1..decodes' : seqs'[i].q = 1 /\ seqs'[i].start = i - 1
  <2>1. Decodes(order) \in 0..n /\ \A i \in 1..Decodes(order) : scheduled[order[i]] = 1 /\ Start(order, i) = i - 1
    BY DecodesLead DEF n
  <2>2. \A i \in 1..Decodes(order) : i \in 1..n
    BY <1>4, <2>1
  <2> QED
    BY <1>2, <1>6, <2>1, <2>2
<1>15. /\ causal' \in BOOLEAN /\ (causal' => layer.causal)
       /\ layer.causal => causal' \/ \A i \in 1..n : seqs'[i].q = 1
  <2>1. causal' \in BOOLEAN /\ (causal' => layer.causal) /\ (layer.causal /\ ~causal' => ~\E r \in Requests : scheduled[r] > 1)
    BY <1>2
  <2>2. ASSUME ~\E r \in Requests : scheduled[r] > 1, NEW i \in 1..n PROVE seqs'[i].q = 1
    BY <1>6, <1>7, <2>2
  <2> QED
    BY <2>1, <2>2
<1> QED
  BY <1>3, <1>4, <1>5, <1>12, <1>13, <1>14, <1>15 DEF StepInv

\* Until the step is over, nothing changes what it was given.
LEMMA StepKept ==
    ASSUME StepInv, phase # "idle", UNCHANGED <<layer, pool, request, plan, step, query>> PROVE StepInv'
<1>1. /\ layer' = layer /\ scheduled' = scheduled /\ computed' = computed /\ table' = table /\ row' = row
      /\ query' = query /\ seqs' = seqs /\ decodes' = decodes /\ causal' = causal
  BY DEF pool, request, plan, step
<1>2. Batch' = Batch /\ \A r : Reach(r)' = Reach(r)
  BY <1>1 DEF Batch, Reach
<1>3. ASSUME NEW n \in 1..Len(seqs) PROVE Sequence(seqs[n])'
  <2> DEFINE s == seqs[n]
  <2>1. Sequence(s)
    BY DEF StepInv
  <2> HIDE DEF s
  <2>2. s.kv = computed'[s.of] + scheduled'[s.of]
    BY <1>1, <2>1 DEF Sequence, Reach
  <2>3. seqs'[n] = s
    BY <1>1 DEF s
  <2> QED
    BY <1>1, <1>2, <2>1, <2>2, <2>3 DEF Sequence, Reach
<1> QED
  BY <1>1, <1>3 DEF StepInv

(***************************************************************************)
(* The pass.                                                               *)
(***************************************************************************)

\* The sequences of a step have the sizes and the places the kernels rely on.
LEMMA SequencesAreSized ==
    ASSUME Inv, StepInv, phase = "stored", NEW n \in 1..Len(seqs)
    PROVE  Sized(seqs[n]) /\ Holds(seqs[n])
<1> DEFINE s == seqs[n]
           r == s.of
<1>1. Sequence(s)
  BY DEF StepInv
<1> HIDE DEF s
<1>2. /\ r \in Batch /\ s.q = scheduled[r] /\ s.kv = Reach(r) /\ s.row = table[row[r]] /\ s.start \in Nat
  BY <1>1 DEF Sequence
<1>3. r \in Requests /\ r \in Running /\ scheduled[r] > 0
  <2>1. r \in Requests /\ scheduled[r] > 0
    BY <1>2 DEF Batch
  <2>2. r \notin Requests \ Running
    BY <2>1 DEF Inv, RowsInv
  <2> QED
    BY <2>1, <2>2
<1> HIDE DEF r
<1>4. /\ computed[r] \in Nat /\ scheduled[r] \in 0..Budget /\ Reach(r) \in Nat /\ Length[r] \in Nat
      /\ Length[r] <= MaxModelLen /\ MaxModelLen \in Nat /\ Budget \in Nat /\ known[r] \in Nat
      /\ layer \in Layers
  BY <1>3, Types DEF Inv
<1>5. Reach(r) <= known[r] /\ known[r] <= Length[r]
  BY <1>3 DEF Inv, RoomInv
<1>6. Sized(s)
  BY <1>2, <1>3, <1>4, <1>5 DEF Sized, Reach
<1>7. ASSUME NEW p \in 0..(s.kv - 1), NEW h \in 0..(layer.heads - 1)
      PROVE  memory[LiesAt(layer, s.row[p \div BlockSize], h, p % BlockSize)] = {<<s.of, p, h>>}
  <2>1. p \in 0..(Reach(r) - 1)
    BY <1>2
  <2>2. table[row[r]][p \div BlockSize] = BlockOf(r, p)
    BY <1>3, <2>1, TokenHasBlock DEF Inv
  <2>3. Held(r, p, h) = {<<r, p, h>>}
    BY <1>3, <2>1 DEF Inv, CacheInv, Stored
  <2>4. Held(r, p, h) = memory[LiesAt(layer, BlockOf(r, p), h, p % BlockSize)]
    BY HeldInCell DEF Cell
  <2> QED
    BY <1>2, <2>2, <2>3, <2>4 DEF r
<1>8. Holds(s)
  BY <1>7 DEF Holds
<1> QED
  BY <1>6, <1>8 DEF s

\* A sequence's rows are its own.
LEMMA RowsAreApart ==
    ASSUME Inv, StepInv, phase # "idle", NEW m \in 1..Len(seqs), NEW n \in 1..Len(seqs),
           NEW i \in 0..(seqs[m].q - 1), NEW j \in 0..(seqs[n].q - 1), seqs[m].start + i = seqs[n].start + j
    PROVE  m = n /\ i = j
<1>1. /\ Len(seqs) \in Nat
      /\ \A a, b \in 1..Len(seqs) : a < b => seqs[a].start + seqs[a].q <= seqs[b].start
      /\ Sequence(seqs[m]) /\ Sequence(seqs[n])
  BY DEF StepInv
<1>2. seqs[m].start \in Nat /\ seqs[n].start \in Nat
  BY <1>1 DEF Sequence
<1>3. ASSUME NEW a \in 1..Len(seqs), Sequence(seqs[a]) PROVE seqs[a].q \in Nat
  <2>1. seqs[a].of \in Requests /\ seqs[a].q = scheduled[seqs[a].of]
    BY <1>3 DEF Sequence, Batch
  <2> QED
    BY <2>1, Types DEF Inv
<1>4. seqs[m].q \in Nat /\ seqs[n].q \in Nat
  BY <1>1, <1>3
<1>6. /\ m < n => seqs[m].start + seqs[m].q <= seqs[n].start
      /\ n < m => seqs[n].start + seqs[n].q <= seqs[m].start
  <2>1. ASSUME NEW a \in 1..Len(seqs), NEW b \in 1..Len(seqs), a < b PROVE seqs[a].start + seqs[a].q <= seqs[b].start
    BY <1>1, <2>1, Zenon
  <2>2. CASE m < n
    <3>1. seqs[m].start + seqs[m].q <= seqs[n].start
      BY <2>1, <2>2, Zenon
    <3>2. ~(n < m)
      BY <2>2, <1>1
    <3> QED
      BY <3>1, <3>2
  <2>3. CASE n < m
    <3>1. seqs[n].start + seqs[n].q <= seqs[m].start
      BY <2>1, <2>3, Zenon
    <3>2. ~(m < n)
      BY <2>3, <1>1
    <3> QED
      BY <3>1, <3>2
  <2> QED
    BY <2>2, <2>3, Zenon
<1>5. ASSUME NEW a \in Nat, NEW b \in Nat, NEW p \in Nat, NEW r \in Nat, i \in 0..(p - 1), j \in 0..(r - 1), a + i = b + j
      PROVE  ~(a + p <= b) /\ ~(b + r <= a)
  BY <1>5
<1>7. ~(seqs[m].start + seqs[m].q <= seqs[n].start) /\ ~(seqs[n].start + seqs[n].q <= seqs[m].start)
  BY <1>2, <1>4, <1>5
<1>8. ~(m < n) /\ ~(n < m)
  BY <1>6, <1>7, Zenon
<1>9. m = n
  BY <1>1, <1>8
<1> QED
  BY <1>2, <1>4, <1>9

\* What a row of a sequence is to be answered, and what head h of it.
Reply(s, i, h) == Attention(s, i, h, Visible(layer, s, i))

\* A row asked for its own token is answered as the stock pass answers it.
LEMMA AnswerIsReply ==
    ASSUME NEW s, NEW i, NEW h, NEW asked, asked = <<s.of, s.kv - s.q + i>>
    PROVE  Answer(s, i, layer.causal, h, asked) = Reply(s, i, h)
<1>1. Sees(s, i, layer.causal) = Visible(layer, s, i)
  BY Zenon DEF Sees, Visible
<1> QED
  BY <1>1, Zenon DEF Answer, Reply, Attention

\* The stores of the loop.
LEMMA LoopStores ==
    ASSUME Inv, StepInv, phase = "stored", NEW rest \in SUBSET (1..Len(seqs)), NEW loop,
           loop = UNION {_run_page_attn(layer, seqs[i], mask_stack(layer, seqs[i], causal), query, memory) : i \in rest}
    PROVE  /\ \A x \in loop : \E n \in rest, h \in 0..(layer.heads - 1) : \E i \in 0..(seqs[n].q - 1) :
                 x = <<seqs[n].start + i, Reply(seqs[n], i, h)>>
           /\ \A n \in rest, h \in 0..(layer.heads - 1) : \A i \in 0..(seqs[n].q - 1) :
                 <<seqs[n].start + i, Reply(seqs[n], i, h)>> \in loop
<1> DEFINE H      == 0..(layer.heads - 1)
           run(n) == _run_page_attn(layer, seqs[n], mask_stack(layer, seqs[n], causal), query, memory)
<1>1. ASSUME NEW n \in rest
      PROVE  /\ \A x \in run(n) : \E i \in 0..(seqs[n].q - 1), h \in H : x = <<seqs[n].start + i, Reply(seqs[n], i, h)>>
             /\ \A i \in 0..(seqs[n].q - 1), h \in H : <<seqs[n].start + i, Reply(seqs[n], i, h)>> \in run(n)
  <2> DEFINE s == seqs[n]
  <2>1. n \in 1..Len(seqs)
    OBVIOUS
  <2>2. /\ Sized(s) /\ Holds(s) /\ Sequence(s) /\ causal \in BOOLEAN /\ (causal => layer.causal)
        /\ (layer.causal => causal \/ s.q = 1) /\ layer \in Layers
    <3>1. Sized(s) /\ Holds(s)
      BY <2>1, SequencesAreSized
    <3>2. causal \in BOOLEAN /\ (causal => layer.causal) /\ layer \in Layers
      BY DEF StepInv, Inv, TypeInv
    <3>3. \A k \in 1..Len(seqs) : Sequence(seqs[k]) /\ (layer.causal => causal \/ seqs[k].q = 1)
      BY DEF StepInv
    <3>4. Sequence(seqs[n]) /\ (layer.causal => causal \/ seqs[n].q = 1)
      BY <2>1, <3>3
    <3> QED
      BY <3>1, <3>2, <3>4
  <2> HIDE DEF s
  <2>3. \A i \in 0..(s.q - 1), h \in H : Answer(s, i, layer.causal, h, query[s.start + i]) = Reply(s, i, h)
    BY <2>2, AnswerIsReply DEF Sequence
  <2> DEFINE stored == _run_page_attn(layer, s, mask_stack(layer, s, causal), query, memory)
  <2> HIDE DEF stored
  <2>4. /\ \A x \in stored : \E i \in 0..(s.q - 1), h \in H :
              x = <<s.start + i, Answer(s, i, layer.causal, h, query[s.start + i])>>
        /\ \A i \in 0..(s.q - 1), h \in H :
              <<s.start + i, Answer(s, i, layer.causal, h, query[s.start + i])>> \in stored
    <3>1. stored = _run_page_attn(layer, s, mask_stack(layer, s, causal), query, memory)
      BY DEF stored
    <3> QED
      BY <2>2, <3>1, LoopAnswers
  <2>5. /\ \A x \in stored : \E i \in 0..(s.q - 1), h \in H : x = <<s.start + i, Reply(s, i, h)>>
        /\ \A i \in 0..(s.q - 1), h \in H : <<s.start + i, Reply(s, i, h)>> \in stored
    BY <2>3, <2>4
  <2> QED
    BY <2>5 DEF s, stored
<1>2. \A x : x \in loop <=> \E n \in rest : x \in run(n)
  <2> HIDE DEF run
  <2>1. loop = UNION {run(n) : n \in rest}
    BY DEF run
  <2> QED
    BY <2>1
<1> HIDE DEF run
<1> QED
  BY <1>1, <1>2

\* The stores of a batch.
LEMMA BatchStores ==
    ASSUME Inv, StepInv, phase = "stored", batched_preconditions(layer, seqs, decodes),
           NEW stored, stored = batched_decode(layer, seqs, decodes, query, memory)
    PROVE  /\ \A x \in stored : \E s \in Nat \ {0}, h \in 0..(layer.heads - 1) : \E v :
                 x = <<s - 1, v>> /\ v.count >= 0 /\ (s <= decodes => v = Reply(seqs[s], 0, h))
           /\ \A s \in 1..decodes, h \in 0..(layer.heads - 1) : <<s - 1, Reply(seqs[s], 0, h)>> \in stored
<1> DEFINE H == 0..(layer.heads - 1)
<1>1. decodes \in 0..Len(seqs) /\ Len(seqs) \in Nat /\ decodes > 0
  BY DEF StepInv, batched_preconditions
<1>2. decodes \in Nat \ {0} /\ layer \in Layers
  BY <1>1 DEF Inv, TypeInv
<1>3. ASSUME NEW s \in 1..decodes
      PROVE  /\ Sized(seqs[s]) /\ Holds(seqs[s]) /\ seqs[s].q = 1
             /\ \A h \in H : Answer(seqs[s], 0, layer.causal, h, query[seqs[s].start]) = Reply(seqs[s], 0, h)
  <2>1. s \in 1..Len(seqs)
    BY <1>1
  <2>2. Sized(seqs[s]) /\ Holds(seqs[s]) /\ Sequence(seqs[s]) /\ seqs[s].q = 1
    BY <2>1, SequencesAreSized DEF StepInv
  <2>3. seqs[s].start \in Nat /\ query[seqs[s].start + 0] = <<seqs[s].of, seqs[s].kv - seqs[s].q + 0>>
    BY <2>2 DEF Sequence
  <2>4. query[seqs[s].start] = <<seqs[s].of, seqs[s].kv - seqs[s].q + 0>>
    BY <2>3
  <2> QED
    BY <2>2, <2>4, AnswerIsReply
<1>4. /\ \A x \in stored : \E s \in Nat \ {0}, h \in H : \E v :
            /\ x = <<s - 1, v>> /\ v.count >= 0
            /\ s <= decodes => v = Answer(seqs[s], 0, layer.causal, h, query[seqs[s].start])
      /\ \A s \in 1..decodes, h \in H :
            <<s - 1, Answer(seqs[s], 0, layer.causal, h, query[seqs[s].start])>> \in stored
  BY <1>2, <1>3, BatchAnswers
<1>5. ASSUME NEW x \in stored
      PROVE  \E s \in Nat \ {0}, h \in H : \E v : x = <<s - 1, v>> /\ v.count >= 0 /\ (s <= decodes => v = Reply(seqs[s], 0, h))
  <2>1. PICK s \in Nat \ {0}, h \in H : \E v :
            /\ x = <<s - 1, v>> /\ v.count >= 0
            /\ s <= decodes => v = Answer(seqs[s], 0, layer.causal, h, query[seqs[s].start])
    BY <1>4
  <2>2. s <= decodes => s \in 1..decodes
    BY <1>2
  <2> QED
    BY <1>3, <2>1, <2>2
<1> QED
  BY <1>3, <1>4, <1>5

\* The pass leaves every row with its answer, and no row with no number.
LEMMA ForwardAnswers == ASSUME Inv, StepInv, forward PROVE AttendsItsOwnContext'
<1> DEFINE H       == 0..(layer.heads - 1)
           batched == batched_preconditions(layer, seqs, decodes)
           rest    == (IF batched THEN decodes + 1 ELSE 1)..Len(seqs)
           loop    == UNION {_run_page_attn(layer, seqs[i], mask_stack(layer, seqs[i], causal), query, memory) : i \in rest}
           batch   == IF batched THEN batched_decode(layer, seqs, decodes, query, memory) ELSE {}
<1>1. phase = "stored" /\ layer' = layer /\ seqs' = seqs
  BY DEF forward, step
<1>2. /\ DOMAIN out' = 0..(StagingRows - 1)
      /\ \A i \in 0..(StagingRows - 1) :
            out'[i] = IF StoredTo(loop, i) # {} THEN StoredTo(loop, i) ELSE StoredTo(batch, i)
  <2>1. Pass = [batch |-> batch, loop |-> loop]
    BY DEF Pass
  <2> HIDE DEF loop, batch
  <2>2. Pass.batch = batch /\ Pass.loop = loop
    BY <2>1
  <2> QED
    BY <2>2 DEF forward
<1>3. /\ Len(seqs) \in Nat /\ DOMAIN seqs = 1..Len(seqs) /\ decodes \in 0..Len(seqs)
      /\ \A n \in 1..Len(seqs) : Sequence(seqs[n])
      /\ \A n \in 1..decodes : seqs[n].q = 1 /\ seqs[n].start = n - 1
  BY <1>1 DEF StepInv
<1>4. rest \in SUBSET (1..Len(seqs)) /\ \A n \in 1..Len(seqs) : n \in rest \/ (batched /\ n \in 1..decodes)
  BY <1>3
<1>5. /\ \A x \in loop : \E n \in rest, h \in H : \E i \in 0..(seqs[n].q - 1) :
            x = <<seqs[n].start + i, Reply(seqs[n], i, h)>>
      /\ \A n \in rest, h \in H : \A i \in 0..(seqs[n].q - 1) : <<seqs[n].start + i, Reply(seqs[n], i, h)>> \in loop
  <2> HIDE DEF rest
  <2> QED
    BY <1>1, <1>4, LoopStores
<1>6. /\ \A x \in batch : \E s \in Nat \ {0}, h \in H : \E v :
            x = <<s - 1, v>> /\ v.count >= 0 /\ (s <= decodes => v = Reply(seqs[s], 0, h))
      /\ batched => \A s \in 1..decodes, h \in H : <<s - 1, Reply(seqs[s], 0, h)>> \in batch
  <2>1. CASE batched
    BY <1>1, <2>1, BatchStores
  <2>2. CASE ~batched
    BY <2>2
  <2> QED
    BY <2>1, <2>2
<1> HIDE DEF loop, batch, rest, batched
<1>7. \A S, i, y : y \in StoredTo(S, i) <=> \E x \in S : x[1] = i /\ y = x[2]
  BY DEF StoredTo
<1>8. H # {} /\ layer \in Layers /\ Budget \in Nat /\ StagingRows = Budget + 1
  <2>1. layer.heads \in Nat \ {0}
    BY LayerAssumption DEF Inv, TypeInv
  <2>2. 0 \in H
    BY <2>1
  <2> QED
    BY <2>2, StepAssumption, KernelAssumption DEF Inv, TypeInv
<1> HIDE DEF H
<1>9. ASSUME NEW n \in 1..Len(seqs), NEW i \in 0..(seqs[n].q - 1)
      PROVE  out'[seqs[n].start + i] = {Reply(seqs[n], i, h) : h \in H}
  <2> DEFINE s == seqs[n]
             a == s.start + i
  <2>1. a \in 0..(StagingRows - 1)
    <3>1. s.of \in Requests /\ s.q = scheduled[s.of] /\ s.start \in Nat /\ s.start + s.q <= Budget
      BY <1>3 DEF Sequence, Batch
    <3>2. s.q \in Nat
      BY <3>1, Types DEF Inv
    <3> QED
      BY <1>8, <3>1, <3>2
  <2>2. out'[a] = IF StoredTo(loop, a) # {} THEN StoredTo(loop, a) ELSE StoredTo(batch, a)
    BY <1>2, <2>1
  <2>3. ASSUME NEW x \in loop, x[1] = a PROVE n \in rest /\ \E h \in H : x[2] = Reply(seqs[n], i, h)
    <3>1. PICK m \in rest, h \in H : \E j \in 0..(seqs[m].q - 1) : x = <<seqs[m].start + j, Reply(seqs[m], j, h)>>
      BY <1>5
    <3>2. PICK j \in 0..(seqs[m].q - 1) : x = <<seqs[m].start + j, Reply(seqs[m], j, h)>>
      BY <3>1
    <3>3. seqs[m].start + j = seqs[n].start + i /\ m \in 1..Len(seqs)
      BY <1>4, <2>3, <3>2
    <3>4. m = n /\ j = i
      BY <1>1, <3>3, RowsAreApart
    <3> QED
      BY <3>2, <3>4
  <2>4. CASE n \in rest
    <3>1. \A h \in H : <<a, Reply(seqs[n], i, h)>> \in loop
      BY <1>5, <2>4
    <3> HIDE DEF a
    <3>2. \A y : y \in StoredTo(loop, a) <=> \E h \in H : y = Reply(seqs[n], i, h)
      <4>1. ASSUME NEW y \in StoredTo(loop, a) PROVE \E h \in H : y = Reply(seqs[n], i, h)
        BY <1>7, <2>3
      <4>2. ASSUME NEW h \in H PROVE Reply(seqs[n], i, h) \in StoredTo(loop, a)
        BY <1>7, <3>1
      <4> QED
        BY <4>1, <4>2
    <3>3. StoredTo(loop, a) # {}
      BY <1>8, <3>2
    <3>4. out'[a] = StoredTo(loop, a)
      BY <2>2, <3>3
    <3> QED
      BY <3>2, <3>4 DEF a
  <2>5. CASE n \notin rest
    <3>1. batched /\ n \in 1..decodes
      BY <1>4, <2>5
    <3>2. i = 0 /\ a = n - 1
      BY <1>3, <3>1
    <3>3. StoredTo(loop, a) = {}
      BY <1>7, <2>3, <2>5
    <3>4. \A h \in H : <<n - 1, Reply(seqs[n], 0, h)>> \in batch
      BY <1>6, <3>1
    <3>5. ASSUME NEW x \in batch, x[1] = n - 1 PROVE \E h \in H : x[2] = Reply(seqs[n], 0, h)
      <4>1. PICK m \in Nat \ {0}, h \in H : \E v : x = <<m - 1, v>> /\ (m <= decodes => v = Reply(seqs[m], 0, h))
        BY <1>6
      <4>2. m = n
        BY <3>5, <4>1
      <4>3. m <= decodes
        BY <1>3, <3>1, <4>2
      <4> QED
        BY <4>1, <4>2, <4>3
    <3>6. \A y : y \in StoredTo(batch, n - 1) <=> \E h \in H : y = Reply(seqs[n], 0, h)
      <4>1. ASSUME NEW y \in StoredTo(batch, n - 1) PROVE \E h \in H : y = Reply(seqs[n], 0, h)
        BY <1>7, <3>5
      <4>2. ASSUME NEW h \in H PROVE Reply(seqs[n], 0, h) \in StoredTo(batch, n - 1)
        BY <1>7, <3>4
      <4> QED
        BY <4>1, <4>2
    <3>7. out'[a] = StoredTo(batch, n - 1)
      BY <2>2, <3>2, <3>3
    <3> HIDE DEF a
    <3> QED
      BY <3>2, <3>6, <3>7 DEF a
  <2> QED
    BY <2>4, <2>5
<1>10. ASSUME NEW i \in DOMAIN out', NEW e \in out'[i] PROVE e.count >= 0
  <2>1. e \in StoredTo(loop, i) \/ e \in StoredTo(batch, i)
    BY <1>2
  <2>2. CASE e \in StoredTo(batch, i)
    BY <1>6, <1>7, <2>2
  <2>3. CASE e \in StoredTo(loop, i)
    <3>1. PICK n \in rest, h \in H : \E k \in 0..(seqs[n].q - 1) : e = Reply(seqs[n], k, h)
      BY <1>5, <1>7, <2>3
    <3>2. PICK k \in 0..(seqs[n].q - 1) : e = Reply(seqs[n], k, h)
      BY <3>1
    <3>3. Sized(seqs[n])
      BY <1>1, <1>4, SequencesAreSized
    <3>4. Cardinality(Sees(seqs[n], k, layer.causal)) \in Nat
      BY <1>8, <3>3, SeesItself
    <3>5. Sees(seqs[n], k, layer.causal) = Visible(layer, seqs[n], k)
      BY Zenon DEF Sees, Visible
    <3>6. e.count = Cardinality(Visible(layer, seqs[n], k))
      BY <3>2 DEF Reply, Attention
    <3> QED
      BY <3>4, <3>5, <3>6
  <2> QED
    BY <2>1, <2>2, <2>3
<1>11. ASSUME NEW n \in DOMAIN seqs', NEW i \in 0..(seqs'[n].q - 1)
       PROVE  out'[seqs'[n].start + i] =
                 {Attention(seqs'[n], i, h, Visible(layer', seqs'[n], i)) : h \in 0..(layer'.heads - 1)}
  <2>1. n \in 1..Len(seqs) /\ i \in 0..(seqs[n].q - 1)
    BY <1>1, <1>3
  <2>2. out'[seqs[n].start + i] = {Reply(seqs[n], i, h) : h \in H}
    BY <1>9, <2>1
  <2>3. {Reply(seqs[n], i, h) : h \in H} = {Attention(seqs[n], i, h, Visible(layer, seqs[n], i)) : h \in H}
    BY Zenon DEF Reply
  <2> QED
    BY <1>1, <2>2, <2>3 DEF H
<1> QED
  BY <1>10, <1>11 DEF AttendsItsOwnContext

ContextInv == Inv /\ StepInv /\ AttendsItsOwnContext

\* Before the first step there is nothing to answer.
LEMMA InitContext == Init => ContextInv
  BY InitInv DEF Init, ContextInv, StepInv, AttendsItsOwnContext

\* And every step keeps it.
LEMMA NextKeepsContext == ContextInv /\ [Next]_vars => ContextInv'
<1> SUFFICES ASSUME ContextInv, [Next]_vars PROVE ContextInv'
  OBVIOUS
<1>1. Inv /\ StepInv /\ AttendsItsOwnContext
  BY DEF ContextInv
<1>2. Inv'
  BY <1>1, NextKeeps
<1>3. ASSUME phase' = "idle" PROVE StepInv' /\ AttendsItsOwnContext'
  BY <1>3 DEF StepInv, AttendsItsOwnContext
<1>4. ASSUME NEW r \in Requests, Schedule(r) \/ Preempt(r) \/ Finish(r) PROVE phase' = "idle"
  BY <1>4 DEF Schedule, Preempt, Finish
<1>5. ASSUME NEW n \in BodySizes, DummyRun(n) PROVE phase' = "idle"
  BY <1>5 DEF DummyRun
<1>6. ASSUME Return PROVE phase' = "idle"
  BY <1>6 DEF Return
<1>7. ASSUME Build PROVE StepInv' /\ AttendsItsOwnContext'
  <2>1. phase' = "built"
    BY <1>7 DEF Build
  <2> QED
    BY <1>1, <1>7, <2>1, BuildSteps DEF AttendsItsOwnContext
<1>8. ASSUME StoreKv PROVE StepInv' /\ AttendsItsOwnContext'
  <2>1. phase' = "stored" /\ phase # "idle" /\ UNCHANGED <<layer, pool, request, plan, step, query>>
    BY <1>8 DEF StoreKv
  <2> QED
    BY <1>1, <2>1, StepKept DEF AttendsItsOwnContext
<1>9. ASSUME forward PROVE StepInv' /\ AttendsItsOwnContext'
  <2>1. phase # "idle" /\ UNCHANGED <<layer, pool, request, plan, step, query>>
    BY <1>9 DEF forward
  <2> QED
    BY <1>1, <1>9, <2>1, StepKept, ForwardAnswers
<1>10. ASSUME UNCHANGED vars PROVE StepInv' /\ AttendsItsOwnContext'
  <2>1. /\ UNCHANGED <<layer, pool, request, plan, step, query>>
        /\ layer' = layer /\ phase' = phase /\ seqs' = seqs /\ out' = out
    BY <1>10 DEF vars, pool, request, plan, step
  <2>2. StepInv'
    BY <1>1, <1>3, <2>1, StepKept
  <2>3. AttendsItsOwnContext'
    BY <1>1, <2>1 DEF AttendsItsOwnContext
  <2> QED
    BY <2>2, <2>3
<1> QED
  BY <1>2, <1>3, <1>4, <1>5, <1>6, <1>7, <1>8, <1>9, <1>10 DEF Next, ContextInv

\* Whatever the layer, the lengths, the buckets and the scheduler's choices, a
\* pass leaves in each row of a request the attention of that row's token over
\* exactly the places of its own context that the model lets it see, each counted
\* once, in whichever of the kernels; and no kernel stores a result that is not a
\* number (build, _run_page_attn, batched_decode).
THEOREM ContextAttended == Spec => []AttendsItsOwnContext
<1>1. ContextInv => AttendsItsOwnContext
  BY DEF ContextInv
<1> QED
  BY <1>1, InitContext, NextKeepsContext, PTL DEF Spec
============================================================================
