------------------------------- MODULE Pool ---------------------------------
(***************************************************************************)
(* PoolAllocator of src/std/mem/pool.mesa: equal slots, the free ones      *)
(* chained through their own first bytes.  A slot the program has holds    *)
(* the program's data there, which may read as any address.                *)
(***************************************************************************)
EXTENDS Naturals, FiniteSets

CONSTANT Capacity
ASSUME CapacityAssumption == Capacity \in Nat \ {0}

Slots == 0..(Capacity - 1)
Junk == Capacity                \* bytes that are no slot's address
Bytes == 0..Capacity

VARIABLES
    links,      \* the first bytes of each slot
    free_head, capacity, available,
    out,        \* the slots the program got and did not give back
    status      \* "run", or the panic that ended it: "exceeds", "exhausted"

vars == <<links, free_head, capacity, available, out, status>>

-----------------------------------------------------------------------------
\* _poolLinkSlots: each slot but the last points to the next one.
LinkSlots(l, cap) == [s \in Slots |-> IF s + 1 < cap THEN s + 1 ELSE l[s]]

\* init, over storage that holds anything.
Init ==
    /\ \E l \in [Slots -> Bytes] : links = LinkSlots(l, Capacity)
    /\ free_head = 0
    /\ capacity = Capacity /\ available = Capacity
    /\ out = {} /\ status = "run"

\* alloc of a request larger or more aligned than a slot.
allocExceeds ==
    /\ status = "run" /\ status' = "exceeds"
    /\ UNCHANGED <<links, free_head, capacity, available, out>>

\* Mutant: the last slot is never given.
allocExhaustedEarly ==
    /\ status = "run" /\ available <= 1
    /\ status' = "exhausted"
    /\ UNCHANGED <<links, free_head, capacity, available, out>>

\* alloc when there is no slot left.
allocExhausted ==
    /\ status = "run" /\ available = 0
    /\ status' = "exhausted"
    /\ UNCHANGED <<links, free_head, capacity, available, out>>

\* alloc: the last free slot is not followed, its bytes were never written.
alloc ==
    /\ status = "run" /\ available > 0
    /\ free_head' = IF available > 1 THEN links[free_head] ELSE free_head
    /\ available' = available - 1
    /\ out' = out \cup {free_head}
    /\ UNCHANGED <<links, capacity, status>>

\* Mutant: the slot becomes the head before the old head is written to it.
free_bytesSelf(s) ==
    /\ status = "run" /\ s \in out
    /\ links' = IF available > 0 THEN [links EXCEPT ![s] = s] ELSE links
    /\ free_head' = s /\ available' = available + 1
    /\ out' = out \ {s}
    /\ UNCHANGED <<capacity, status>>

\* free_bytes and poolFreeSlot, of a slot the program has.
free_bytes(s) ==
    /\ status = "run" /\ s \in out
    /\ links' = IF available > 0 THEN [links EXCEPT ![s] = free_head] ELSE links
    /\ free_head' = s /\ available' = available + 1
    /\ out' = out \ {s}
    /\ UNCHANGED <<capacity, status>>

\* The program writes to a slot it has.
Write(s, bytes) ==
    /\ status = "run" /\ s \in out
    /\ links' = [links EXCEPT ![s] = bytes]
    /\ UNCHANGED <<free_head, capacity, available, out, status>>

\* realloc returns the slot as it is, or panics when it is too small.
reallocExceeds ==
    /\ status = "run" /\ out # {}
    /\ status' = "exceeds"
    /\ UNCHANGED <<links, free_head, capacity, available, out>>

\* reset: the program's slots are its own no longer.
reset ==
    /\ status = "run"
    /\ links' = LinkSlots(links, capacity)
    /\ free_head' = 0 /\ available' = capacity
    /\ out' = {}
    /\ UNCHANGED <<capacity, status>>

\* free: the storage goes back to the inner allocator.  A pool that was freed
\* already is not freed again.
free ==
    /\ status = "run" /\ capacity > 0
    /\ available' = 0 /\ capacity' = 0 /\ out' = {}
    /\ UNCHANGED <<links, free_head, status>>

Next ==
    \/ allocExceeds
    \/ allocExhausted
    \/ alloc
    \/ reallocExceeds
    \/ \E s \in Slots : free_bytes(s)
    \/ \E s \in Slots, bytes \in Bytes : Write(s, bytes)
    \/ reset
    \/ free

Spec == Init /\ [][Next]_vars

-----------------------------------------------------------------------------
(* Properties.                                                             *)

\* The k-th slot met from the head of the free list.
FreeSlot ==
    LET walk[k \in 0..Capacity] ==
            IF k = 0 THEN free_head
            ELSE IF walk[k - 1] \in Slots THEN links[walk[k - 1]] ELSE Junk
    IN walk

\* The variables have their types.
TypeOK ==
    /\ links \in [Slots -> Bytes] /\ free_head \in Slots
    /\ capacity \in {0, Capacity} /\ available \in 0..capacity
    /\ out \subseteq Slots /\ status \in {"run", "exceeds", "exhausted"}

\* Whatever the program wrote and in whatever order it gave slots back, the
\* first `available` slots of the chain are the free ones, each once: what
\* alloc compares with 1 and with 0 is what the chain really has.
FreeListExact ==
    capacity > 0 =>
        /\ {FreeSlot[k] : k \in 0..(available - 1)} = Slots \ out
        /\ available = Cardinality(Slots \ out)

Promise == INSTANCE SlotPool WITH open <- (capacity > 0)

\* The pool keeps its promise: no slot is given out twice, and "exhausted" is
\* said only of a pool that gave every slot or was freed.
ImplementsSlotPool == Promise!PSpec
=============================================================================
