------------------------------- MODULE MCStd --------------------------------
(***************************************************************************)
(* The state machines of the standard library and the runtime, one of      *)
(* which runs: a pool of slots (Pool, whose variables keep their names     *)
(* here), an arena over one of the buffers, a writer over a sink, or the   *)
(* collector with a heap of few objects that hold several words each.      *)
(***************************************************************************)
EXTENDS Pool

CONSTANTS Kinds, PageSize, InitialCapacity, Sizes, Aligns, MaxBlocks, MaxUsed   \* of Arena
CONSTANTS Cap, MaxBytes, MaxDrained                                             \* of Writer
CONSTANTS Addrs, Locals, PayloadWords, Frames, Descs, NULL, Foreign,            \* of MesaGC
          ObjectSizes, Threshold
CONSTANTS lone, word1, word2                    \* a variable, and the words of an object

OneFrame == {<<lone>>}
TwoWords == {<<>>, <<word1, word2>>}

ASSUME ArenaAssumption ==
    /\ Kinds \subseteq {"page", "c", "fixed"}
    /\ PageSize \in Nat \ {0} /\ InitialCapacity \in Nat
    /\ Sizes \subseteq Nat /\ Aligns \subseteq Nat
    /\ MaxBlocks \in Nat /\ MaxUsed \in Nat
ASSUME WriterAssumption == Cap \in Nat /\ MaxBytes \in Nat /\ MaxDrained \in Nat

VARIABLES
    kind, base, room, used, blocks, lost, outcome,                      \* the arena
    buf, data, pos, pc, cont, next, sent, dropped, failed,              \* the writer
    heap, total, stack, osize, desc, mark, fields, locals, fresh, at,   \* the collector
    req, scanned, pending, swept,
    which                                                               \* who runs

arena == <<kind, base, room, used, blocks, lost, outcome>>
writer == <<buf, data, pos, pc, cont, next, sent, dropped, failed>>
collector ==
    <<heap, total, stack, osize, desc, mark, fields, locals, fresh, at, req, scanned, pending, swept>>
all == <<vars, arena, writer, collector, which>>

A == INSTANCE Arena WITH capacity <- room, status <- outcome
W == INSTANCE Writer
G == INSTANCE MesaGC
         WITH Slots <- PayloadWords, Sizes <- ObjectSizes, bytes <- total, size <- osize, pc <- at

StdInit ==
    /\ Init /\ A!Init /\ W!Init /\ G!Init
    /\ which \in {"pool", "arena", "writer", "gc"}
    /\ which # "pool" => links = LinkSlots([s \in Slots |-> Junk], Capacity)
    /\ which # "arena" => kind = "fixed"

StdNext ==
    \/ which = "pool" /\ Next /\ UNCHANGED <<arena, writer, collector, which>>
    \/ which = "arena" /\ A!Next /\ UNCHANGED <<vars, writer, collector, which>>
    \/ which = "writer" /\ W!Next /\ UNCHANGED <<vars, arena, collector, which>>
    \/ which = "gc" /\ G!Next /\ UNCHANGED <<vars, arena, writer, which>>

\* A call of the writer or of mesa_gc_alloc that has begun goes on: it is one
\* thread of control.
Continuing ==
    \/ which = "writer" /\ W!Running /\ UNCHANGED <<vars, arena, collector, which>>
    \/ which = "gc" /\ G!Allocator /\ UNCHANGED <<vars, arena, writer, which>>

StdSpec == StdInit /\ [][StdNext]_all /\ WF_all(Continuing)

-----------------------------------------------------------------------------
\* The variables of the first three have their types; a page buffer is whole pages,
\* the cursor of flush stays within the buffer, a free list has a head.
StdTypeOK == TypeOK /\ A!TypeOK /\ W!TypeOK

\* Blocks of one region of an arena share no byte, are aligned, and stay below
\* the cursor and the capacity, in any order of allocations, reallocations,
\* resets and growths (ArenaAllocator.realloc, the buffers' reserve).
BlocksPlaced == A!BlocksPlaced

\* The writer's buffer is never written past its capacity (Writer.writeByte and
\* the chunks of Writer.writeAll store at self.end).
WithinBuffer == W!WithinBuffer

\* While no drain fails, the sink has what was written, in order, up to what is
\* still in the buffer and in the running call, whatever the short drains and
\* the writes that bypass the buffer (Writer.writeAll, Writer.flush).
StreamExact == W!StreamExact

\* After failures too, which make a retry drain again what it had drained, each
\* byte reaches the sink for the first time after those before it, and none is
\* lost but the unused rest of a failed call.
FirstInOrder == W!FirstInOrder

\* Every call of the writer returns.
CallsReturn == W!CallsReturn

\* _mesa_gc_bytes stays the sum of the sizes of the objects on the list, with
\* objects of two sizes and in the middle of a sweep.
BytesExact == G!BytesExact

\* mesa_gc_alloc returns or aborts: marking ends in a heap whose objects point
\* to each other by two words each, and so does the sweep.
AllocReturns == G!AllocReturns
=============================================================================
