------------------------------- MODULE Arena --------------------------------
(***************************************************************************)
(* ArenaAllocator of src/std/mem/arena.mesa over each of the three buffers *)
(* of src/std/mem.  A buffer that grows moves to a new region, so a block  *)
(* is a region and an extent in it; regions are numbered as they are       *)
(* obtained.  The arena is not used again after its `free`.                *)
(***************************************************************************)
EXTENDS Integers, FiniteSetsExt

CONSTANTS
    Kinds,              \* the buffers to consider: "page", "c", "fixed"
    PageSize,
    InitialCapacity,    \* passed to the buffer's init
    Sizes, Aligns,      \* of the allocations asked for
    MaxBlocks, MaxUsed  \* bounds: blocks alive, bytes bumped over

VARIABLES
    kind,       \* of the buffer
    base,       \* the buffer's region
    capacity,   \* of the buffer
    used,       \* of the arena
    blocks,     \* what the program got since the last reset
    lost,       \* realloc copied from a region given back before the copy
    status      \* "run", "panic" (capacity exceeded) or "freed"

vars == <<kind, base, capacity, used, blocks, lost, status>>

-----------------------------------------------------------------------------
(* buffer.mesa.                                                            *)

maxI64(a, b) == IF a > b THEN a ELSE b
normalizeAlign(align) == IF align <= 1 THEN 1 ELSE align

alignForward(offset, align) ==
    LET actual == normalizeAlign(align)
        rem == offset % actual
    IN IF rem = 0 THEN offset ELSE offset + (actual - rem)

growCapacity(current, needed) ==
    maxI64(IF current <= 0 THEN needed ELSE current * 2, needed)

roundUpToPage(size) ==
    LET wanted == maxI64(size, PageSize)
        rem == wanted % PageSize
    IN IF rem = 0 THEN wanted ELSE wanted + (PageSize - rem)

-----------------------------------------------------------------------------
(* The buffers.                                                            *)

\* init of PageBuffer, CBuffer and FixedBuffer.
InitialOf(k) ==
    CASE k = "page"  -> roundUpToPage(InitialCapacity)
      [] k = "c"     -> maxI64(InitialCapacity, 1)
      [] k = "fixed" -> InitialCapacity

\* What a buffer that grows asks for.
GrownTo(needed) ==
    IF kind = "page" THEN roundUpToPage(growCapacity(capacity, needed))
                     ELSE growCapacity(capacity, needed)

\* reserve of the three buffers: a fixed one panics, the others copy to a
\* region of their own and give the old one back.
Reserve(min, align) ==
    LET needed == alignForward(min, align) IN
    \/ /\ needed <= capacity
       /\ UNCHANGED <<base, capacity, status>>
    \/ /\ needed > capacity /\ kind = "fixed"
       /\ status' = "panic"
       /\ UNCHANGED <<base, capacity>>
    \/ /\ needed > capacity /\ kind # "fixed"
       /\ base' = base + 1
       /\ capacity' = GrownTo(needed)
       /\ UNCHANGED status

-----------------------------------------------------------------------------
(* The arena.                                                              *)

Init ==
    /\ kind \in Kinds
    /\ base = 0 /\ capacity = InitialOf(kind)
    /\ used = 0 /\ blocks = {} /\ lost = FALSE /\ status = "run"

\* Mutant: the cursor advances by the size alone, forgetting the padding.
BumpUnpadded(others, size, align) ==
    LET start == alignForward(used, align)
        end == start + size
    IN
    /\ end <= MaxUsed
    /\ Reserve(end, align)
    /\ IF status' = "panic" THEN UNCHANGED <<used, blocks>>
       ELSE /\ used' = used + size
            /\ blocks' = others \cup
                 {[region |-> base', start |-> start, size |-> size, align |-> align]}

\* The body alloc and realloc share: align the cursor, reserve up to the end
\* of the block, bump.  `others` are the blocks that stay as they are.
Bump(others, size, align) ==
    LET start == alignForward(used, align)
        end == start + size
    IN
    /\ end <= MaxUsed
    /\ Reserve(end, align)
    /\ IF status' = "panic" THEN UNCHANGED <<used, blocks>>
       ELSE /\ used' = end
            /\ blocks' = others \cup
                 {[region |-> base', start |-> start, size |-> size, align |-> align]}

alloc(size, align) ==
    /\ status = "run" /\ Cardinality(blocks) < MaxBlocks
    /\ Bump(blocks, size, align)
    /\ UNCHANGED <<kind, lost>>

\* realloc in place, for a block that does not grow.
reallocInPlace(b, size) ==
    /\ status = "run" /\ b \in blocks /\ size <= b.size
    /\ blocks' = (blocks \ {b}) \cup {[b EXCEPT !.size = size]}
    /\ UNCHANGED <<kind, base, capacity, used, lost, status>>

\* realloc of a block that grows: old_size bytes are copied from where it is,
\* after the reserve.
realloc(b, size) ==
    /\ status = "run" /\ b \in blocks /\ size > b.size
    /\ Bump(blocks \ {b}, size, b.align)
    /\ lost' = (lost \/ (status' = "run" /\ b.size > 0 /\ b.region # base'))
    /\ UNCHANGED kind

\* reset: the blocks are the program's no longer.
reset ==
    /\ status = "run" /\ used' = 0 /\ blocks' = {}
    /\ UNCHANGED <<kind, base, capacity, lost, status>>

\* free: release sets the capacity of a growing buffer to 0.
free ==
    /\ status = "run" /\ status' = "freed"
    /\ capacity' = IF kind = "fixed" THEN capacity ELSE 0
    /\ used' = 0 /\ blocks' = {}
    /\ UNCHANGED <<kind, base, lost>>

Next ==
    \/ \E size \in Sizes, align \in Aligns : alloc(size, align)
    \/ \E b \in blocks, size \in Sizes : reallocInPlace(b, size)
    \/ \E b \in blocks, size \in Sizes : realloc(b, size)
    \/ reset
    \/ free

Spec == Init /\ [][Next]_vars

-----------------------------------------------------------------------------
(* Properties.                                                             *)

Ending(b) == b.start + b.size

\* The variables have their types; a page buffer is whole pages.
TypeOK ==
    /\ kind \in Kinds /\ status \in {"run", "panic", "freed"}
    /\ base \in Nat /\ capacity \in Nat /\ used \in 0..MaxUsed
    /\ lost \in BOOLEAN
    /\ kind = "page" => capacity % PageSize = 0
    /\ blocks \subseteq [region : 0..base, start : 0..MaxUsed,
                         size : Sizes, align : Aligns]

\* The blocks of one region share no byte, start at a multiple of the
\* alignment asked for, and end below the cursor, which never passes the
\* capacity: whatever the order of allocations, reallocations, resets and
\* growths.
BlocksPlaced ==
    /\ used <= capacity
    /\ \A b \in blocks :
         /\ b.start % normalizeAlign(b.align) = 0
         /\ Ending(b) <= used
    /\ \A b, c \in blocks :
         b # c /\ b.region = c.region => Ending(b) <= c.start \/ Ending(c) <= b.start

\* What the program got stays where it is until a reset or the free:
\* design/mesa_design.md:511, "memory stays until arena.free() is called
\* manually".  (The reserve of the page and C buffers gives the old region
\* back, with the blocks in it, and realloc then copies from there.)
BlocksStay == ~lost /\ \A b \in blocks : b.size > 0 => b.region = base
=============================================================================
