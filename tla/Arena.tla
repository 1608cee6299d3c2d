------------------------------- MODULE Arena -------------------------------
(* The bump allocator of all passes (arena.c).  A block is known by its      *)
(* number; the block at the head of the list is the newest one.  Memory maps *)
(* a block and an offset in it to the character there.                       *)
EXTENDS Naturals, Sequences

CONSTANTS Align,     \* sizeof(void *)
          BlockSize  \* the size of an ordinary block

ASSUME ArenaAssumption == Align \in Nat \ {0} /\ BlockSize \in Nat \ {0}

VARIABLES blocks,  \* the blocks, the head last
          mem      \* the bytes that were written

Block == [cap : Nat, used : Nat]
HeadBlock == blocks[Len(blocks)]

align_up(n) == ((n + Align - 1) \div Align) * Align

HasRoom(n) == blocks # <<>> /\ HeadBlock.used + n <= HeadBlock.cap

\* Mutant: all blocks have one size.
Extended_fixed(n) ==
  IF HasRoom(n) THEN blocks ELSE Append(blocks, [cap |-> BlockSize, used |-> 0])

\* The blocks once there is room for n more bytes at the head.
Extended(n) ==
  IF HasRoom(n) THEN blocks
  ELSE Append(blocks, [cap |-> IF n > BlockSize THEN n ELSE BlockSize, used |-> 0])

\* arena_alloc: where the bytes are, and the blocks afterwards.
Place(bytes) == LET bs == Extended(align_up(bytes)) IN [block |-> Len(bs), at |-> bs[Len(bs)].used]
Allocated(bytes) == LET bs == Extended(align_up(bytes))
                    IN [bs EXCEPT ![Len(bs)].used = @ + align_up(bytes)]

\* memcpy and memset of n bytes at a place.
Cells(place, s) == {<<place.block, place.at + i - 1>> : i \in DOMAIN s}
Written(place, s) ==
  [c \in Cells(place, s) \cup DOMAIN mem |->
     IF c \in Cells(place, s) THEN s[c[2] - place.at + 1] ELSE mem[c]]

ArenaInit == blocks = <<>> /\ mem = <<>>

\* arena_alloc_zero
arena_alloc_zero(bytes) ==
  /\ blocks' = Allocated(bytes)
  /\ mem' = Written(Place(bytes), [i \in 1 .. bytes |-> "NUL"])

\* arena_strndup, and what the parser does for itself with a decoded string:
\* room for n characters and a terminator, of which it fills what s has.
StoreText(n, s) ==
  /\ blocks' = Allocated(n + 1)
  /\ mem' = Written(Place(n + 1), Append(s, "NUL"))

arena_free == blocks' = <<>> /\ mem' = <<>>

ArenaTypeOK ==
  /\ blocks \in Seq(Block)
  /\ \A i \in DOMAIN blocks : blocks[i].used <= blocks[i].cap /\ blocks[i].used % Align = 0
=============================================================================
