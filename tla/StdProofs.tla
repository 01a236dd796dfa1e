----------------------------- MODULE StdProofs ------------------------------
(***************************************************************************)
(* Pool, arena and writer, as MCStd runs them, and in the end all of them. *)
(*                                                                         *)
(* The blocks of an arena never overlap, whatever the sizes, alignments,   *)
(* page size and bounds: BlocksPlaced is inductive with the types, since   *)
(* a block is placed where the cursor is and reserve keeps the capacity    *)
(* past the cursor.  The arena is the instance A of MCStd.                 *)
(*                                                                         *)
(* The sink gets what the program wrote, in order, for any capacity, any   *)
(* sizes of writes, short drains and failures.  The invariant keeps the    *)
(* accounts of the bytes: those sent, those on their way (Queue, the first *)
(* pos of which flush has drained) and those given up after a failure.     *)
(* Each action drains from the queue, forgets what is drained, adds to its *)
(* end or cuts it, and a lemma for each says that the accounts still hold. *)
(***************************************************************************)
EXTENDS MCStd, DataFacts

-----------------------------------------------------------------------------
(* The pool gives no slot twice and refuses only when all are out, for any *)
(* number of slots and whatever bytes the program writes to its slots.     *)
(* The invariant names the chain the free list is: a function Chain from   *)
(* 0..available - 1 onto the free slots, one to one, that starts at        *)
(* free_head and follows the links.                                        *)

\* c is a chain of n slots, those of unused, from head on, as the links l say.
IsChain(c, l, head, n, unused) ==
    /\ c \in [0..(n - 1) -> unused]
    /\ \A s \in unused : \E k \in 0..(n - 1) : c[k] = s
    /\ \A i, j \in 0..(n - 1) : c[i] = c[j] => i = j
    /\ n > 0 => c[0] = head
    /\ \A k \in 0..(n - 1) : k + 1 <= n - 1 => l[c[k]] = c[k + 1]

\* The types; of what is left only that it is a number.
Types ==
    /\ links \in [Slots -> Bytes] /\ free_head \in Slots
    /\ capacity \in {0, Capacity} /\ available \in Nat
    /\ out \subseteq Slots /\ status \in {"run", "exceeds", "exhausted"}
    /\ capacity = 0 => out = {} /\ available = 0

\* While the pool has its storage, the free list is a chain of the free slots.
ChainExists == capacity > 0 => \E c : IsChain(c, links, free_head, available, Slots \ out)

Inv == Types /\ ChainExists

-----------------------------------------------------------------------------
(* Linking all slots makes the chain of all of them, first to last.        *)
LEMMA LinkedAll ==
    ASSUME NEW l PROVE IsChain([k \in Slots |-> k], LinkSlots(l, Capacity), 0, Capacity, Slots)
  BY CapacityAssumption DEF LinkSlots, Slots, IsChain

(* The rest of the chain, once its first slot is given to the program.     *)
LEMMA TakeFirst ==
    ASSUME NEW l, NEW head, NEW n \in Nat \ {0}, NEW unused, NEW c, IsChain(c, l, head, n, unused)
    PROVE  /\ head \in unused
           /\ n > 1 => l[head] \in unused
           /\ \E d : IsChain(d, l, IF n > 1 THEN l[head] ELSE head, n - 1, unused \ {head})
<1> DEFINE d == [k \in 0..(n - 2) |-> c[k + 1]]
<1>1. 0 \in 0..(n - 1) /\ c[0] = head /\ c[0] \in unused
  BY DEF IsChain
<1>2. ASSUME NEW k \in 0..(n - 2)
      PROVE  /\ k + 1 \in 0..(n - 1) /\ d[k] = c[k + 1]
             /\ c[k + 1] \in unused /\ c[k + 1] # head
  BY <1>1 DEF IsChain
<1>3. d \in [0..(n - 2) -> unused \ {head}]
  BY <1>2
<1>4. ASSUME NEW s \in unused \ {head} PROVE \E k \in 0..(n - 2) : d[k] = s
  <2>1. PICK k \in 0..(n - 1) : c[k] = s
    BY DEF IsChain
  <2>2. k - 1 \in 0..(n - 2) /\ (k - 1) + 1 = k
    BY <1>1, <2>1
  <2> QED
    BY <1>2, <2>1, <2>2
<1>5. ASSUME NEW i \in 0..(n - 2), NEW j \in 0..(n - 2), d[i] = d[j] PROVE i = j
  BY <1>2, <1>5 DEF IsChain
<1>6. n > 1 => l[head] = c[1] /\ c[1] \in unused /\ d[0] = c[1]
  BY <1>1 DEF IsChain
<1>7. ASSUME NEW k \in 0..(n - 2), k + 1 <= n - 2 PROVE l[d[k]] = d[k + 1]
  <2>1. k + 1 \in 0..(n - 2) /\ k + 1 \in 0..(n - 1) /\ (k + 1) + 1 <= n - 1
    BY <1>7
  <2> QED
    BY <1>2, <2>1 DEF IsChain
<1>8. (n - 1) - 1 = n - 2
  OBVIOUS
<1> HIDE DEF d
<1>9. IsChain(d, l, IF n > 1 THEN l[head] ELSE head, n - 1, unused \ {head})
  BY <1>1, <1>3, <1>4, <1>5, <1>6, <1>7, <1>8 DEF IsChain
<1> QED
  BY <1>1, <1>6, <1>9

(* A slot that comes back is the first, and points to the one that was.    *)
LEMMA GiveFirst ==
    ASSUME NEW l \in [Slots -> Bytes], NEW head, NEW n \in Nat, NEW unused \in SUBSET Slots,
           NEW c, IsChain(c, l, head, n, unused), NEW s \in Slots \ unused
    PROVE  \E d : IsChain(d, IF n > 0 THEN [l EXCEPT ![s] = head] ELSE l,
                           s, n + 1, unused \cup {s})
<1> DEFINE d == [k \in 0..n |-> IF k = 0 THEN s ELSE c[k - 1]]
           m == IF n > 0 THEN [l EXCEPT ![s] = head] ELSE l
<1>1. ASSUME NEW k \in 1..n
      PROVE  k - 1 \in 0..(n - 1) /\ d[k] = c[k - 1] /\ c[k - 1] \in unused /\ c[k - 1] # s
  BY DEF IsChain
<1>2. d[0] = s
  OBVIOUS
<1>3. \A k \in 0..n : k = 0 \/ k \in 1..n
  OBVIOUS
<1>4. d \in [0..n -> unused \cup {s}]
  <2>1. \A k \in 0..n : d[k] \in unused \cup {s}
    BY <1>1, <1>2, <1>3
  <2> QED
    BY <2>1
<1>5. ASSUME NEW t \in unused \cup {s} PROVE \E k \in 0..n : d[k] = t
  <2>1. CASE t = s
    BY <1>2, <2>1
  <2>2. CASE t # s
    <3>1. PICK k \in 0..(n - 1) : c[k] = t
      BY <2>2 DEF IsChain
    <3>2. k + 1 \in 1..n /\ k + 1 \in 0..n /\ (k + 1) - 1 = k
      OBVIOUS
    <3> QED
      BY <1>1, <3>1, <3>2
  <2> QED
    BY <2>1, <2>2
<1>6. ASSUME NEW i \in 0..n, NEW j \in 0..n, d[i] = d[j] PROVE i = j
  <2>1. CASE i = 0 \/ j = 0
    BY <1>1, <1>2, <1>3, <1>6, <2>1
  <2>2. CASE i # 0 /\ j # 0
    <3>1. i \in 1..n /\ j \in 1..n
      BY <1>3, <2>2
    <3>2. i - 1 = j - 1
      BY <1>1, <1>6, <3>1 DEF IsChain
    <3> QED
      BY <3>1, <3>2
  <2> QED
    BY <2>1, <2>2
<1>7. ASSUME NEW k \in 0..n, k + 1 <= n PROVE m[d[k]] = d[k + 1]
  <2>1. n > 0 /\ k + 1 \in 1..n /\ (k + 1) - 1 = k /\ d[k + 1] = c[k] /\ m = [l EXCEPT ![s] = head]
    BY <1>1, <1>7
  <2>2. CASE k = 0
    BY <1>2, <2>1, <2>2 DEF IsChain
  <2>3. CASE k # 0
    <3>1. k \in 1..n /\ k - 1 \in 0..(n - 1) /\ (k - 1) + 1 = k /\ k <= n - 1
      BY <1>7, <2>3
    <3>2. l[c[k - 1]] = c[k]
      BY <3>1 DEF IsChain
    <3> QED
      BY <1>1, <2>1, <3>1, <3>2
  <2> QED
    BY <2>2, <2>3
<1>8. (n + 1) - 1 = n
  OBVIOUS
<1> HIDE DEF d, m
<1>9. IsChain(d, m, s, n + 1, unused \cup {s})
  BY <1>2, <1>4, <1>5, <1>6, <1>7, <1>8 DEF IsChain
<1> QED
  BY <1>9 DEF m

(* What the program writes to its slots leaves the chain alone.            *)
LEMMA WriteAside ==
    ASSUME NEW l \in [Slots -> Bytes], NEW head, NEW n \in Nat, NEW unused \in SUBSET Slots,
           NEW c, IsChain(c, l, head, n, unused), NEW s \in Slots \ unused, NEW bytes
    PROVE  IsChain(c, [l EXCEPT ![s] = bytes], head, n, unused)
<1>1. ASSUME NEW k \in 0..(n - 1) PROVE c[k] \in unused /\ [l EXCEPT ![s] = bytes][c[k]] = l[c[k]]
  BY DEF IsChain
<1> QED
  BY <1>1 DEF IsChain

-----------------------------------------------------------------------------
(* Linking the slots makes the invariant true.                            *)
LEMMA InitInv == Init => Inv
<1> SUFFICES ASSUME Init PROVE Inv
  OBVIOUS
<1>1. PICK l \in [Slots -> Bytes] : links = LinkSlots(l, Capacity)
  BY DEF Init
<1>2. links \in [Slots -> Bytes]
  BY <1>1, CapacityAssumption DEF LinkSlots, Slots, Bytes
<1>3. Types
  BY <1>2, CapacityAssumption DEF Init, Types, Slots
<1>4. Slots \ out = Slots
  BY DEF Init
<1> QED
  BY <1>1, <1>3, <1>4, LinkedAll DEF Init, Inv, ChainExists

(* Every step keeps the types.                                             *)
LEMMA TypesStep == Inv /\ [Next]_vars => Types'
<1> SUFFICES ASSUME Inv, [Next]_vars PROVE Types'
  OBVIOUS
<1>0. Types /\ free_head \in Bytes
  BY CapacityAssumption DEF Inv, Types, Slots, Bytes
<1>1. CASE allocExceeds
  BY <1>0, <1>1 DEF allocExceeds, Types
<1>2. CASE allocExhausted
  BY <1>0, <1>2 DEF allocExhausted, Types
<1>3. CASE alloc
  <2>1. available \in Nat \ {0} /\ capacity > 0
    BY <1>0, <1>3, CapacityAssumption DEF alloc, Types
  <2>2. PICK c : IsChain(c, links, free_head, available, Slots \ out)
    BY <2>1 DEF Inv, ChainExists
  <2>3. available > 1 => links[free_head] \in Slots \ out
    BY <2>1, <2>2, TakeFirst
  <2>4. free_head' \in Slots /\ available' \in Nat /\ free_head \in Slots
    BY <1>0, <1>3, <2>1, <2>3 DEF alloc, Types
  <2> QED
    BY <1>0, <1>3, <2>1, <2>4 DEF alloc, Types
<1>4. CASE reallocExceeds
  BY <1>0, <1>4 DEF reallocExceeds, Types
<1>5. ASSUME NEW s \in Slots, free_bytes(s) PROVE Types'
  BY <1>0, <1>5 DEF free_bytes, Types
<1>6. ASSUME NEW s \in Slots, NEW bytes \in Bytes, Write(s, bytes) PROVE Types'
  BY <1>0, <1>6 DEF Write, Types
<1>7. CASE reset
  <2>1. links' \in [Slots -> Bytes]
    BY <1>0, <1>7, CapacityAssumption DEF reset, LinkSlots, Slots, Bytes, Types
  <2> QED
    BY <1>0, <1>7, <2>1, CapacityAssumption DEF reset, Slots, Types
<1>8. CASE free
  BY <1>0, <1>8 DEF free, Types
<1>9. CASE UNCHANGED vars
  BY <1>0, <1>9 DEF vars, Types
<1> QED
  BY <1>1, <1>2, <1>3, <1>4, <1>5, <1>6, <1>7, <1>8, <1>9 DEF Next

(* Every step leaves a chain of the free slots.                            *)
LEMMA ChainStep == Inv /\ [Next]_vars => ChainExists'
<1> SUFFICES ASSUME Inv, [Next]_vars, capacity' > 0
             PROVE  \E c : IsChain(c, links', free_head', available', Slots \ out')
  BY DEF ChainExists
<1>1. Types /\ capacity > 0 /\ capacity = Capacity
  BY CapacityAssumption
     DEF Inv, Types, Next, vars, allocExceeds, allocExhausted, alloc, free_bytes, Write, reallocExceeds, reset, free
<1>2. PICK c : IsChain(c, links, free_head, available, Slots \ out)
  BY <1>1 DEF Inv, ChainExists
<1>3. links \in [Slots -> Bytes] /\ available \in Nat /\ out \subseteq Slots
  BY <1>1 DEF Types
<1>4. CASE allocExceeds \/ allocExhausted \/ reallocExceeds \/ UNCHANGED vars
  BY <1>2, <1>4 DEF allocExceeds, allocExhausted, reallocExceeds, vars
<1>5. CASE alloc
  <2>1. available \in Nat \ {0} /\ Slots \ out' = (Slots \ out) \ {free_head}
    BY <1>3, <1>5 DEF alloc
  <2>2. \E d : IsChain(d, links, IF available > 1 THEN links[free_head] ELSE free_head,
                       available - 1, (Slots \ out) \ {free_head})
    BY <1>2, <2>1, TakeFirst
  <2> QED
    BY <1>5, <2>1, <2>2 DEF alloc
<1>6. ASSUME NEW s \in Slots, free_bytes(s)
      PROVE  \E d : IsChain(d, links', free_head', available', Slots \ out')
  <2>1. s \in Slots \ (Slots \ out) /\ Slots \ out' = (Slots \ out) \cup {s}
    BY <1>6 DEF free_bytes
  <2>2. Slots \ out \in SUBSET Slots
    OBVIOUS
  <2>3. \E d : IsChain(d, IF available > 0 THEN [links EXCEPT ![s] = free_head] ELSE links,
                       s, available + 1, (Slots \ out) \cup {s})
    BY <1>2, <1>3, <2>1, <2>2, GiveFirst
  <2> QED
    BY <1>6, <2>1, <2>3 DEF free_bytes
<1>7. ASSUME NEW s \in Slots, NEW bytes \in Bytes, Write(s, bytes)
      PROVE  \E d : IsChain(d, links', free_head', available', Slots \ out')
  <2>1. s \in Slots \ (Slots \ out)
    BY <1>7 DEF Write
  <2> QED
    BY <1>2, <1>3, <1>7, <2>1, WriteAside DEF Write
<1>8. CASE reset
  <2>1. links' = LinkSlots(links, Capacity) /\ Slots \ out' = Slots
    BY <1>1, <1>8 DEF reset
  <2> QED
    BY <1>1, <1>8, <2>1, LinkedAll DEF reset
<1>9. CASE free
  BY <1>9 DEF free
<1> QED
  BY <1>4, <1>5, <1>6, <1>7, <1>8, <1>9 DEF Next

(* The free list is a chain of exactly the free slots, always.             *)
THEOREM Invariance == Spec => []Inv
<1>1. Inv /\ [Next]_vars => Inv'
  BY TypesStep, ChainStep DEF Inv
<1> QED
  BY InitInv, <1>1, PTL DEF Spec

-----------------------------------------------------------------------------
(* A chain is as long as there are free slots.                             *)
LEMMA ChainLength ==
    ASSUME NEW l, NEW head, NEW n \in Nat, NEW unused, NEW c, IsChain(c, l, head, n, unused)
    PROVE  IsFiniteSet(unused) /\ Cardinality(unused) = n
<1>1. c \in Bijection(0..(n - 1), unused)
  BY DEF IsChain, Bijection, Injection, IsInjective, Surjection
<1>2. IsFiniteSet(0..(n - 1)) /\ Cardinality(0..(n - 1)) = n
  BY FS_Interval
<1> QED
  BY <1>1, <1>2, FS_Bijection DEF ExistsBijection

(* What the invariant says of the types.                                   *)
LEMMA InvTypes == Inv => TypeOK /\ (capacity > 0 => available = Cardinality(Slots \ out))
<1> SUFFICES ASSUME Inv PROVE TypeOK /\ (capacity > 0 => available = Cardinality(Slots \ out))
  OBVIOUS
<1>1. capacity \in Nat /\ available \in Nat
  BY CapacityAssumption DEF Inv, Types
<1>2. CASE capacity > 0
  <2>1. PICK c : IsChain(c, links, free_head, available, Slots \ out)
    BY <1>2 DEF Inv, ChainExists
  <2>2. available = Cardinality(Slots \ out)
    BY <1>1, <2>1, ChainLength
  <2>3. IsFiniteSet(Slots) /\ Cardinality(Slots) = Capacity
    BY FS_Interval, CapacityAssumption DEF Slots
  <2>4. available <= Capacity
    BY <2>2, <2>3, FS_Subset
  <2> QED
    BY <1>1, <1>2, <2>2, <2>4 DEF Inv, Types, TypeOK
<1>3. CASE ~(capacity > 0)
  BY <1>1, <1>3 DEF Inv, Types, TypeOK
<1> QED
  BY <1>2, <1>3

(* The variables keep their types: no more slots are available than there  *)
(* are, and as many as are free.                                           *)
THEOREM TypeCorrect == Spec => [](TypeOK /\ (capacity > 0 => available = Cardinality(Slots \ out)))
  BY InvTypes, Invariance, PTL

-----------------------------------------------------------------------------
\* f meets the slots from free_head on, n steps far.
IsWalk(f, n) ==
    f = [k \in 0..n |-> IF k = 0 THEN free_head ELSE IF f[k - 1] \in Slots THEN links[f[k - 1]] ELSE Junk]

(* There is such a walk, as long as one wants.                             *)
LEMMA WalkExists == ASSUME NEW m \in Nat PROVE \E f : IsWalk(f, m)
<1> DEFINE S == {n \in Nat : \E f : IsWalk(f, n)}
<1>1. 0 \in S
  <2>1. IsWalk([k \in 0..0 |-> free_head], 0)
    BY DEF IsWalk
  <2> QED
    BY <2>1
<1>2. ASSUME NEW n \in S \cap Nat PROVE n + 1 \in S
  <2>1. PICK f : IsWalk(f, n)
    OBVIOUS
  <2> DEFINE g == [k \in 0..(n + 1) |->
                      IF k = 0 THEN free_head ELSE IF f[k - 1] \in Slots THEN links[f[k - 1]] ELSE Junk]
  <2>2. \A k \in 0..n : f[k] = IF k = 0 THEN free_head ELSE IF f[k - 1] \in Slots THEN links[f[k - 1]] ELSE Junk
    BY <2>1 DEF IsWalk
  <2>3. \A k \in 0..n : g[k] = f[k]
    BY <2>2
  <2>4. \A k \in 0..(n + 1) : k # 0 => k - 1 \in 0..n
    OBVIOUS
  <2>5. \A k \in 0..(n + 1) : k # 0 => f[k - 1] = g[k - 1]
    BY <2>3, <2>4
  <2>6. g = [k \in 0..(n + 1) |-> IF k = 0 THEN free_head ELSE IF g[k - 1] \in Slots THEN links[g[k - 1]] ELSE Junk]
    BY <2>5
  <2> HIDE DEF g
  <2>7. IsWalk(g, n + 1)
    BY <2>6 DEF IsWalk
  <2> QED
    BY <2>7
<1> HIDE DEF S
<1>3. m \in S
  BY <1>1, <1>2, Induct
<1> QED
  BY <1>3 DEF S

(* What FreeSlot is, place by place.                                       *)
LEMMA WalkIs ==
    \A k \in 0..Capacity :
        FreeSlot[k] = IF k = 0 THEN free_head ELSE IF FreeSlot[k - 1] \in Slots THEN links[FreeSlot[k - 1]] ELSE Junk
<1>1. \E f : IsWalk(f, Capacity)
  BY WalkExists, CapacityAssumption
<1>2. FreeSlot = CHOOSE f : IsWalk(f, Capacity)
  BY DEF FreeSlot, IsWalk
<1>3. IsWalk(FreeSlot, Capacity)
  BY <1>1, <1>2
<1> QED
  BY <1>3 DEF IsWalk

(* The walk meets the slots of the chain, in its order.                    *)
LEMMA WalkFollowsChain ==
    ASSUME NEW n \in Nat, n <= Capacity, NEW unused \in SUBSET Slots, NEW c, IsChain(c, links, free_head, n, unused)
    PROVE  \A k \in 0..(n - 1) : FreeSlot[k] = c[k]
<1> DEFINE S == {k \in Nat : k \in 0..(n - 1) => FreeSlot[k] = c[k]}
<1>1. 0 \in S
  <2>1. 0 \in 0..(n - 1) => FreeSlot[0] = free_head /\ c[0] = free_head
    BY WalkIs, CapacityAssumption DEF IsChain
  <2> QED
    BY <2>1
<1>2. ASSUME NEW k \in S \cap Nat PROVE k + 1 \in S
  <2> SUFFICES ASSUME k + 1 \in 0..(n - 1) PROVE FreeSlot[k + 1] = c[k + 1]
    OBVIOUS
  <2>1. k \in 0..(n - 1) /\ k + 1 <= n - 1 /\ k + 1 \in 0..Capacity /\ k + 1 # 0 /\ (k + 1) - 1 = k
    BY CapacityAssumption
  <2>2. FreeSlot[k] = c[k] /\ c[k] \in Slots
    BY <2>1 DEF IsChain
  <2>3. links[c[k]] = c[k + 1]
    BY <2>1 DEF IsChain
  <2>4. FreeSlot[k + 1] = IF FreeSlot[k] \in Slots THEN links[FreeSlot[k]] ELSE Junk
    BY <2>1, WalkIs
  <2> QED
    BY <2>2, <2>3, <2>4
<1> HIDE DEF S
<1>3. Nat \subseteq S
  BY <1>1, <1>2, Induct
<1> QED
  BY <1>3 DEF S

(* Whatever the program wrote and in whatever order it gave slots back,    *)
(* the first `available` slots met from free_head are the free ones, each  *)
(* once (_poolLinkSlots, poolFreeSlot, PoolAllocator.alloc).               *)
THEOREM FreeListFollowed == Spec => []FreeListExact
<1>1. Inv => FreeListExact
  <2> SUFFICES ASSUME Inv, capacity > 0
               PROVE  /\ {FreeSlot[k] : k \in 0..(available - 1)} = Slots \ out
                      /\ available = Cardinality(Slots \ out)
    BY DEF FreeListExact
  <2>1. PICK c : IsChain(c, links, free_head, available, Slots \ out)
    BY DEF Inv, ChainExists
  <2>2. available \in Nat /\ available = Cardinality(Slots \ out)
    BY <2>1, ChainLength DEF Inv, Types
  <2>3. available <= Capacity
    <3>1. IsFiniteSet(Slots) /\ Cardinality(Slots) = Capacity
      BY FS_Interval, CapacityAssumption DEF Slots
    <3> QED
      BY <2>2, <3>1, FS_Subset
  <2>4. \A k \in 0..(available - 1) : FreeSlot[k] = c[k]
    BY <2>1, <2>2, <2>3, WalkFollowsChain
  <2>5. c \in [0..(available - 1) -> Slots \ out] /\ \A s \in Slots \ out : \E k \in 0..(available - 1) : c[k] = s
    BY <2>1 DEF IsChain
  <2> DEFINE D == 0..(available - 1)
  <2> HIDE DEF D
  <2>6. {FreeSlot[k] : k \in D} = Slots \ out
    BY <2>4, <2>5 DEF D
  <2> QED
    BY <2>2, <2>6 DEF D
<1> QED
  BY <1>1, Invariance, PTL

-----------------------------------------------------------------------------
(* Every step is one of the promise, or none.                              *)
LEMMA PromiseStep == Inv /\ [Next]_vars => [Promise!PNext]_(Promise!vars)
<1> SUFFICES ASSUME Inv, [Next]_vars PROVE Promise!PNext \/ UNCHANGED Promise!vars
  OBVIOUS
<1> USE DEF Promise!PNext, Promise!vars
<1>1. CASE allocExceeds \/ reallocExceeds
  BY <1>1 DEF allocExceeds, reallocExceeds, Promise!Refuse
<1>2. CASE allocExhausted
  <2>1. capacity > 0 => out = Slots
    <3>1. ASSUME NEW c, IsChain(c, links, free_head, 0, Slots \ out) PROVE Slots \ out = {}
      BY <3>1 DEF IsChain
    <3>2. available = 0 /\ out \subseteq Slots
      BY <1>2 DEF allocExhausted, Inv, Types
    <3> QED
      BY <3>1, <3>2 DEF Inv, ChainExists
  <2> QED
    BY <1>2, <2>1 DEF allocExhausted, Promise!Refuse
<1>3. CASE alloc
  <2>1. capacity > 0
    BY <1>3, CapacityAssumption DEF alloc, Inv, Types
  <2>2. free_head \in Slots \ out
    <3>1. PICK c : IsChain(c, links, free_head, available, Slots \ out)
      BY <2>1 DEF Inv, ChainExists
    <3>2. available \in Nat \ {0}
      BY <1>3 DEF alloc, Inv, Types
    <3> QED
      BY <3>1, <3>2, TakeFirst
  <2>3. Promise!Take(free_head)
    BY <1>3, <2>1, <2>2 DEF alloc, Promise!Take
  <2> QED
    BY <2>2, <2>3
<1>4. ASSUME NEW s \in Slots, free_bytes(s) PROVE Promise!PNext
  <2>1. Promise!Give(s)
    BY <1>4 DEF free_bytes, Promise!Give
  <2> QED
    BY <2>1
<1>5. ASSUME NEW s \in Slots, NEW bytes \in Bytes, Write(s, bytes) PROVE UNCHANGED Promise!vars
  BY <1>5 DEF Write
<1>6. CASE reset
  BY <1>6 DEF reset, Promise!Clear
<1>7. CASE free
  BY <1>7, CapacityAssumption DEF free, Promise!Clear
<1>8. CASE UNCHANGED vars
  BY <1>8 DEF vars
<1> QED
  BY <1>1, <1>2, <1>3, <1>4, <1>5, <1>6, <1>7, <1>8 DEF Next

(* No slot is given to the program while it has it, and "exhausted" is     *)
(* said only of a pool that gave every slot or was freed: for any number   *)
(* of slots and whatever the program writes.                               *)
THEOREM Refinement == Spec => ImplementsSlotPool
<1>1. Init => Promise!PInit
  BY CapacityAssumption DEF Init, Promise!PInit
<1> QED
  BY <1>1, PromiseStep, Invariance, PTL DEF Spec, ImplementsSlotPool, Promise!PSpec

-----------------------------------------------------------------------------
(* alignForward: a multiple of the alignment, not below the offset.        *)
LEMMA AlignedUp ==
    ASSUME NEW offset \in Nat, NEW p \in Nat \ {0}
    PROVE  \A up : up = (IF offset % p = 0 THEN offset ELSE offset + (p - (offset % p)))
                => up \in Nat /\ up >= offset /\ up % p = 0
<1> DEFINE q == offset \div p
           r == offset % p
<1>1. q \in Nat /\ r \in 0..(p - 1) /\ offset = p * q + r
  OBVIOUS
<1>2. PICK k \in Nat : offset + (p - r) = p * k
  <2>1. q + 1 \in Nat /\ offset + (p - r) = p * (q + 1)
    BY <1>1
  <2> QED
    BY <2>1
<1>3. (p * k) % p = 0
  OBVIOUS
<1>4. (offset + (p - r)) % p = 0
  BY <1>2, <1>3
<1> QED
  BY <1>1, <1>4

(* The same of the operators that the allocators call.                     *)
LEMMA ForwardAligned ==
    ASSUME NEW offset \in Nat, NEW align \in Nat
    PROVE  /\ A!normalizeAlign(align) \in Nat \ {0}
           /\ A!alignForward(offset, align) \in Nat
           /\ A!alignForward(offset, align) >= offset
           /\ A!alignForward(offset, align) % A!normalizeAlign(align) = 0
<1> DEFINE p == A!normalizeAlign(align)
<1>1. p \in Nat \ {0}
  BY DEF A!normalizeAlign
<1> HIDE DEF p
<1>2. A!alignForward(offset, align) = IF offset % p = 0 THEN offset ELSE offset + (p - (offset % p))
  BY DEF A!alignForward, p
<1> QED
  BY <1>1, <1>2, AlignedUp DEF p

(* roundUpToPage: whole pages, not below the size.                         *)
LEMMA RoundedUp ==
    ASSUME NEW size \in Nat
    PROVE  /\ A!roundUpToPage(size) \in Nat /\ A!roundUpToPage(size) >= size
           /\ A!roundUpToPage(size) % PageSize = 0
<1> DEFINE w == A!maxI64(size, PageSize)
<1>1. PageSize \in Nat \ {0} /\ w \in Nat /\ w >= size
  BY ArenaAssumption DEF A!maxI64
<1> HIDE DEF w
<1>2. A!roundUpToPage(size) = IF w % PageSize = 0 THEN w ELSE w + (PageSize - (w % PageSize))
  BY DEF A!roundUpToPage, w
<1>3. A!roundUpToPage(size) \in Nat /\ A!roundUpToPage(size) >= w /\ A!roundUpToPage(size) % PageSize = 0
  BY <1>1, <1>2, AlignedUp
<1> QED
  BY <1>1, <1>3

(* What a buffer grows to is enough, and whole pages if it has pages.      *)
LEMMA Grown ==
    ASSUME NEW needed \in Nat, room \in Nat
    PROVE  /\ A!GrownTo(needed) \in Nat /\ A!GrownTo(needed) >= needed
           /\ kind = "page" => A!GrownTo(needed) % PageSize = 0
<1>1. A!growCapacity(room, needed) \in Nat /\ A!growCapacity(room, needed) >= needed
  BY DEF A!growCapacity, A!maxI64
<1> QED
  BY <1>1, RoundedUp DEF A!GrownTo

-----------------------------------------------------------------------------
(* The types and the placement of the blocks.                              *)
ArenaInv == A!TypeOK /\ A!BlocksPlaced

(* A new arena is well formed.                                             *)
LEMMA ArenaInit == A!Init => ArenaInv
<1> SUFFICES ASSUME A!Init PROVE ArenaInv
  OBVIOUS
<1>1. A!InitialOf(kind) \in Nat /\ (kind = "page" => A!InitialOf(kind) % PageSize = 0)
  BY ArenaAssumption, RoundedUp DEF A!Init, A!InitialOf, A!maxI64
<1>2. A!TypeOK
  <2>1. kind \in Kinds /\ outcome \in {"run", "panic", "freed"} /\ base \in Nat /\ lost \in BOOLEAN
    BY DEF A!Init
  <2>2. room \in Nat /\ (kind = "page" => room % PageSize = 0)
    BY <1>1 DEF A!Init
  <2>3. used \in 0..MaxUsed /\ blocks = {}
    BY ArenaAssumption DEF A!Init
  <2> QED
    BY <2>1, <2>2, <2>3 DEF A!TypeOK
<1>3. A!BlocksPlaced
  BY <1>1 DEF A!Init, A!BlocksPlaced
<1> QED
  BY <1>2, <1>3 DEF ArenaInv

(* Reserving up to an end makes room for it.                               *)
LEMMA Reserved ==
    ASSUME ArenaInv, outcome = "run", NEW end \in Nat, NEW align \in Nat, A!Reserve(end, align)
    PROVE  /\ base' \in Nat /\ base' >= base /\ room' \in Nat /\ room' >= room
           /\ outcome' \in {outcome, "panic"}
           /\ outcome' # "panic" => end <= room'
           /\ outcome' = "panic" => UNCHANGED <<base, room>>
           /\ kind = "page" => room' % PageSize = 0
<1> DEFINE needed == A!alignForward(end, align)
<1>1. needed \in Nat /\ needed >= end
  BY ForwardAligned
<1>2. room \in Nat /\ base \in Nat /\ (kind = "page" => room % PageSize = 0)
  BY DEF ArenaInv, A!TypeOK
<1>3. A!GrownTo(needed) \in Nat /\ A!GrownTo(needed) >= needed /\ (kind = "page" => A!GrownTo(needed) % PageSize = 0)
  BY <1>1, <1>2, Grown
<1> HIDE DEF needed
<1>4. \/ needed <= room /\ UNCHANGED <<base, room, outcome>>
      \/ needed > room /\ kind = "fixed" /\ outcome' = "panic" /\ UNCHANGED <<base, room>>
      \/ needed > room /\ kind # "fixed" /\ base' = base + 1 /\ room' = A!GrownTo(needed) /\ UNCHANGED outcome
  BY DEF A!Reserve, needed
<1> QED
  BY <1>1, <1>2, <1>3, <1>4

(* What the invariant says of one block.                                   *)
LEMMA Placed ==
    ASSUME ArenaInv, NEW b \in blocks
    PROVE  /\ b \in [region : 0..base, start : 0..MaxUsed, size : Sizes, align : Aligns]
           /\ b.start \in Nat /\ b.size \in Nat
           /\ b.start % A!normalizeAlign(b.align) = 0 /\ b.start + b.size <= used
<1>1. b \in [region : 0..base, start : 0..MaxUsed, size : Sizes, align : Aligns]
  BY DEF ArenaInv, A!TypeOK
<1>2. b.start \in 0..MaxUsed /\ b.size \in Sizes
  BY <1>1
<1>3. b.start % A!normalizeAlign(b.align) = 0 /\ b.start + b.size <= used
  BY DEF ArenaInv, A!BlocksPlaced, A!Ending
<1>4. b.start \in Nat /\ b.size \in Nat
  <2>1. 0..MaxUsed \subseteq Nat /\ Sizes \subseteq Nat
    BY ArenaAssumption
  <2> QED
    BY <1>2, <2>1
<1> QED
  BY <1>1, <1>3, <1>4

(* A block that is bumped over is placed past all that stay.               *)
LEMMA Bumped ==
    ASSUME ArenaInv, outcome = "run", NEW others \in SUBSET blocks, NEW size \in Sizes, NEW align \in Aligns,
           A!Bump(others, size, align), UNCHANGED kind,
           lost' \in BOOLEAN
    PROVE  ArenaInv'
<1> DEFINE start == A!alignForward(used, align)
           end == start + size
           new == [region |-> base', start |-> start, size |-> size, align |-> align]
<1>1. /\ used \in Nat /\ size \in Nat /\ align \in Nat /\ MaxUsed \in Nat
      /\ start \in Nat /\ start >= used /\ start % A!normalizeAlign(align) = 0
  <2>1. used \in Nat /\ size \in Nat /\ align \in Nat /\ MaxUsed \in Nat
    BY ArenaAssumption DEF ArenaInv, A!TypeOK
  <2> QED
    BY <2>1, ForwardAligned
<1> HIDE DEF start
<1>2. /\ end \in 0..MaxUsed /\ A!Reserve(end, align)
      /\ outcome' = "panic" => UNCHANGED <<used, blocks>>
      /\ outcome' # "panic" => used' = end /\ blocks' = others \cup {new}
  <2>1. end \in Nat
    BY <1>1
  <2>2. end <= MaxUsed /\ A!Reserve(end, align)
    BY DEF A!Bump, start
  <2>3. IF outcome' = "panic" THEN UNCHANGED <<used, blocks>>
        ELSE used' = end /\ blocks' = others \cup {new}
    BY DEF A!Bump, start
  <2> HIDE DEF end, new
  <2> QED
    BY <1>1, <2>1, <2>2, <2>3
<1>3. /\ base' \in Nat /\ base' >= base /\ room' \in Nat /\ room' >= room
      /\ outcome' \in {outcome, "panic"}
      /\ outcome' # "panic" => end <= room'
      /\ outcome' = "panic" => UNCHANGED <<base, room>>
      /\ kind = "page" => room' % PageSize = 0
  BY <1>1, <1>2, Reserved
<1> HIDE DEF end, new
<1>4. CASE outcome' = "panic"
  <2>1. A!TypeOK'
    BY <1>2, <1>3, <1>4 DEF ArenaInv, A!TypeOK
  <2>2. A!BlocksPlaced'
    BY <1>2, <1>3, <1>4 DEF ArenaInv, A!BlocksPlaced, A!Ending, A!normalizeAlign
  <2> QED
    BY <2>1, <2>2 DEF ArenaInv
<1>5. CASE outcome' # "panic"
  <2>1. used' = end /\ end <= room' /\ end >= used /\ end = start + size /\ blocks' = others \cup {new}
    BY <1>1, <1>2, <1>3, <1>5 DEF end
  <2>2. /\ new.region = base' /\ new.start = start /\ new.size = size /\ new.align = align
        /\ new \in [region : 0..base', start : 0..MaxUsed, size : Sizes, align : Aligns]
    BY <1>1, <1>2, <1>3, <2>1 DEF new
  <2>3. ASSUME NEW b \in others
        PROVE  /\ b \in [region : 0..base', start : 0..MaxUsed, size : Sizes, align : Aligns]
               /\ b.start \in Nat /\ b.size \in Nat
               /\ b.start % A!normalizeAlign(b.align) = 0 /\ b.start + b.size <= used
    <3>1. b \in [region : 0..base, start : 0..MaxUsed, size : Sizes, align : Aligns] /\ 0..base \subseteq 0..base'
      BY <1>3, Placed DEF ArenaInv, A!TypeOK
    <3>2. b \in [region : 0..base', start : 0..MaxUsed, size : Sizes, align : Aligns]
      BY <3>1
    <3> QED
      BY <1>3, <3>2, Placed
  <2>4. A!TypeOK'
    <3>1. blocks' \subseteq [region : 0..base', start : 0..MaxUsed, size : Sizes, align : Aligns]
      BY <2>1, <2>2, <2>3
    <3>2. outcome' \in {"run", "panic", "freed"} /\ used' \in 0..MaxUsed
      BY <1>2, <1>3, <2>1
    <3> QED
      BY <1>3, <3>1, <3>2 DEF ArenaInv, A!TypeOK
  <2>5. A!BlocksPlaced'
    <3>1. ASSUME NEW b \in blocks' PROVE b.start % A!normalizeAlign(b.align) = 0 /\ A!Ending(b) <= used'
      BY <1>1, <2>1, <2>2, <2>3 DEF A!Ending
    <3>2. ASSUME NEW b \in blocks', NEW c \in blocks', b # c, b.region = c.region
          PROVE  A!Ending(b) <= c.start \/ A!Ending(c) <= b.start
      <4>1. CASE b \in others /\ c \in others
        BY <3>2, <4>1 DEF ArenaInv, A!BlocksPlaced
      <4>2. CASE b \in others /\ c = new
        BY <1>1, <2>2, <2>3, <4>2 DEF A!Ending
      <4>3. CASE b = new /\ c \in others
        BY <1>1, <2>2, <2>3, <4>3 DEF A!Ending
      <4> QED
        BY <2>1, <3>2, <4>1, <4>2, <4>3
    <3>3. (used <= room)'
      BY <2>1
    <3> QED
      BY <3>1, <3>2, <3>3 DEF A!BlocksPlaced, A!Ending, A!normalizeAlign
  <2> QED
    BY <2>4, <2>5 DEF ArenaInv
<1> QED
  BY <1>4, <1>5

(* alloc bumps the cursor over a new block, among all the others.          *)
LEMMA AllocStep == ASSUME ArenaInv, NEW size \in Sizes, NEW align \in Aligns, A!alloc(size, align) PROVE ArenaInv'
<1>1. outcome = "run" /\ A!Bump(blocks, size, align) /\ UNCHANGED <<kind, lost>>
  BY DEF A!alloc
<1> QED
  BY <1>1, Bumped DEF ArenaInv, A!TypeOK

(* A block that grows is bumped over again, among the others.              *)
LEMMA ReallocStep == ASSUME ArenaInv, NEW b \in blocks, NEW size \in Sizes, A!realloc(b, size) PROVE ArenaInv'
<1>1. /\ outcome = "run" /\ A!Bump(blocks \ {b}, size, b.align) /\ UNCHANGED kind
      /\ lost' = (lost \/ (outcome' = "run" /\ b.size > 0 /\ b.region # base'))
  BY DEF A!realloc
<1>2. b.align \in Aligns /\ lost \in BOOLEAN
  BY DEF ArenaInv, A!TypeOK
<1>3. lost' \in BOOLEAN
  BY <1>1, <1>2
<1> QED
  BY <1>1, <1>2, <1>3, Bumped

(* A block that shrinks stays within where it was.                         *)
LEMMA InPlaceStep == ASSUME ArenaInv, NEW b \in blocks, NEW size \in Sizes, A!reallocInPlace(b, size) PROVE ArenaInv'
<1> DEFINE new == [b EXCEPT !.size = size]
<1>1. /\ size <= b.size /\ blocks' = (blocks \ {b}) \cup {new}
      /\ UNCHANGED <<kind, base, room, used, lost, outcome>>
  BY DEF A!reallocInPlace
<1>2. b \in [region : 0..base, start : 0..MaxUsed, size : Sizes, align : Aligns]
  BY DEF ArenaInv, A!TypeOK
<1>3. /\ new.region = b.region /\ new.start = b.start /\ new.size = size /\ new.align = b.align
      /\ new \in [region : 0..base, start : 0..MaxUsed, size : Sizes, align : Aligns]
  BY <1>2
<1> HIDE DEF new
<1>4. \A c \in blocks : c.start \in Nat /\ c.size \in Nat
  BY Placed
<1>5. size \in Nat /\ used \in Nat
  BY ArenaAssumption DEF ArenaInv, A!TypeOK
<1>6. A!TypeOK'
  BY <1>1, <1>3 DEF ArenaInv, A!TypeOK
<1>7. A!BlocksPlaced'
  <2>1. ASSUME NEW c \in blocks' PROVE c.start % A!normalizeAlign(c.align) = 0 /\ A!Ending(c) <= used'
    BY <1>1, <1>3, <1>4, <1>5 DEF ArenaInv, A!BlocksPlaced, A!Ending
  <2>2. ASSUME NEW c \in blocks', NEW d \in blocks', c # d, c.region = d.region
        PROVE  A!Ending(c) <= d.start \/ A!Ending(d) <= c.start
    <3> DEFINE old(x) == IF x = new THEN b ELSE x
    <3>1. \A x \in blocks' : /\ old(x) \in blocks /\ (x # new => x # b)
                             /\ old(x).region = x.region /\ old(x).start = x.start
                             /\ x.size \in Nat /\ x.size <= old(x).size
      BY <1>1, <1>3, <1>4, <1>5
    <3>2. old(c) # old(d)
      BY <2>2, <3>1
    <3> HIDE DEF old
    <3>3. A!Ending(old(c)) <= old(d).start \/ A!Ending(old(d)) <= old(c).start
      BY <2>2, <3>1, <3>2 DEF ArenaInv, A!BlocksPlaced
    <3> QED
      BY <1>4, <3>1, <3>3 DEF A!Ending
  <2>3. (used <= room)'
    BY <1>1 DEF ArenaInv, A!BlocksPlaced
  <2> QED
    BY <2>1, <2>2, <2>3 DEF A!BlocksPlaced, A!Ending, A!normalizeAlign
<1> QED
  BY <1>6, <1>7 DEF ArenaInv

(* Every operation of the arena keeps the invariant.                       *)
LEMMA ArenaStep == ArenaInv /\ [A!Next]_arena => ArenaInv'
<1> SUFFICES ASSUME ArenaInv, [A!Next]_arena PROVE ArenaInv'
  OBVIOUS
<1>1. CASE A!reset
  BY <1>1, ArenaAssumption DEF A!reset, ArenaInv, A!TypeOK, A!BlocksPlaced
<1>2. CASE A!free
  BY <1>2, ArenaAssumption DEF A!free, ArenaInv, A!TypeOK, A!BlocksPlaced
<1>3. CASE UNCHANGED arena
  BY <1>3 DEF arena, ArenaInv, A!TypeOK, A!BlocksPlaced, A!Ending, A!normalizeAlign
<1> QED
  BY <1>1, <1>2, <1>3, AllocStep, ReallocStep, InPlaceStep DEF A!Next

(* The invariant holds whatever runs.                                      *)
THEOREM ArenaInvariance == StdSpec => []ArenaInv
<1>1. StdInit => ArenaInv
  BY ArenaInit DEF StdInit
<1>2. ArenaInv /\ [StdNext]_all => ArenaInv'
  BY ArenaStep DEF StdNext, all
<1> QED
  BY <1>1, <1>2, PTL DEF StdSpec

(* Blocks of one region share no byte, are aligned, and stay below the     *)
(* cursor and the capacity (ArenaAllocator.realloc, the buffers' reserve), *)
(* for every page size, capacity, size and alignment.                      *)
THEOREM BlocksNeverOverlap == StdSpec => []BlocksPlaced
  BY ArenaInvariance, PTL DEF ArenaInv, BlocksPlaced

-----------------------------------------------------------------------------
(* The writer.                                                             *)

\* The bytes on their way: those of the buffer, then those of the running call.
Queue == buf \o data

\* A later byte that is smaller than an earlier one is sent again.
InOrder(s) ==
    \A i, j \in 1..Len(s) : i < j /\ s[j] < s[i] => \E k \in 1..(i - 1) : s[k] = s[j]

Increasing(q) == \A a, b \in 1..Len(q) : a < b => q[a] < q[b]

\* What s has sent of the queue q, whose first p bytes are drained: bytes that
\* are ahead of one that was sent were sent before it, and the drained ones too.
Follows(s, q, p) ==
    /\ p \in 0..Len(q)
    /\ InOrder(s) /\ Increasing(q)
    /\ \A a \in 1..Len(q), i \in 1..Len(s) : q[a] < s[i] => \E k \in 1..(i - 1) : s[k] = q[a]
    /\ \A a \in 1..p : \E k \in 1..Len(s) : s[k] = q[a]

(* Draining n bytes of the queue keeps the order.                          *)
LEMMA Drained ==
    ASSUME NEW s \in Seq(Nat), NEW q \in Seq(Nat), NEW p \in Nat, NEW n \in Nat,
           Follows(s, q, p), p + n <= Len(q)
    PROVE  Follows(s \o SubSeq(q, p + 1, p + n), q, p + n)
<1> DEFINE t == SubSeq(q, p + 1, p + n)
           u == s \o t
<1>1. t \in Seq(Nat) /\ Len(t) = n /\ \A i \in 1..n : t[i] = q[p + i]
  OBVIOUS
<1> HIDE DEF t
<1>2. /\ u \in Seq(Nat) /\ Len(u) = Len(s) + n /\ Len(s) \in Nat /\ Len(q) \in Nat
      /\ \A i \in 1..Len(u) : u[i] = IF i <= Len(s) THEN s[i] ELSE t[i - Len(s)]
  <2>1. Len(s) \in Nat /\ Len(t) \in Nat
    OBVIOUS
  <2>2. t \in Seq(Nat)
    BY <1>1
  <2>3. s \o t \in Seq(Nat) /\ Len(s \o t) = Len(s) + Len(t)
    BY <2>2, Cat
  <2>4. \A i \in 1..(Len(s) + Len(t)) : (s \o t)[i] = IF i <= Len(s) THEN s[i] ELSE t[i - Len(s)]
    BY <1>1, Cat
  <2> QED
    BY <1>1, <2>1, <2>3, <2>4
<1> HIDE DEF u
<1>9. \A i \in 1..Len(s) : u[i] = s[i] /\ i \in 1..Len(u)
  BY <1>2
<1>3. ASSUME NEW i \in 1..n
      PROVE  p + i \in 1..Len(q) /\ Len(s) + i \in 1..Len(u) /\ u[Len(s) + i] = q[p + i]
  <2>1. p + i \in 1..Len(q) /\ Len(s) + i \in 1..Len(u) /\ ~(Len(s) + i <= Len(s)) /\ (Len(s) + i) - Len(s) = i
    BY <1>2
  <2> QED
    BY <1>1, <1>2, <2>1
<1>10. ASSUME NEW i \in 1..Len(u), i \notin 1..Len(s)
       PROVE  i - Len(s) \in 1..n /\ u[i] = q[p + (i - Len(s))] /\ p + (i - Len(s)) \in 1..Len(q)
  <2>1. Len(u) = Len(s) + n /\ Len(s) \in Nat
    BY <1>2
  <2>2. i - Len(s) \in 1..n /\ Len(s) + (i - Len(s)) = i
    BY <1>10, <2>1
  <2> QED
    BY <1>3, <2>2
<1>4. ASSUME NEW a \in 1..Len(q), NEW i \in 1..Len(u), q[a] < u[i] PROVE \E k \in 1..(i - 1) : u[k] = q[a]
  <2>1. CASE i \in 1..Len(s)
    <3>1. u[i] = s[i]
      BY <1>9, <2>1
    <3>2. PICK k \in 1..(i - 1) : s[k] = q[a]
      BY <1>4, <2>1, <3>1 DEF Follows
    <3>3. k \in 1..Len(s)
      BY <2>1
    <3> QED
      BY <1>9, <3>2, <3>3
  <2>2. CASE i \notin 1..Len(s)
    <3>1. i - Len(s) \in 1..n /\ u[i] = q[p + (i - Len(s))] /\ p + (i - Len(s)) \in 1..Len(q)
      BY <1>10, <2>2
    <3>2. a < p + (i - Len(s))
      <4> DEFINE b == p + (i - Len(s))
      <4>1. b \in 1..Len(q) /\ q[a] < q[b]
        BY <1>4, <3>1
      <4> HIDE DEF b
      <4>2. q[a] \in Nat /\ q[b] \in Nat /\ a \in Nat /\ b \in Nat
        BY <4>1
      <4>3. b < a => q[b] < q[a]
        BY <4>1 DEF Follows, Increasing
      <4>4. a < b
        BY <4>1, <4>2, <4>3
      <4> QED
        BY <4>4 DEF b
    <3>3. CASE a <= p
      <4>1. PICK k \in 1..Len(s) : s[k] = q[a]
        BY <3>3 DEF Follows
      <4>2. k \in 1..(i - 1)
        BY <2>2
      <4> QED
        BY <1>9, <4>1, <4>2
    <3>4. CASE a > p
      <4>1. Len(s) \in Nat /\ Len(q) \in Nat /\ a \in 1..Len(q) /\ i \in Int /\ i - Len(s) \in 1..n
        BY <1>2, <3>1
      <4>2. a - p \in 1..n /\ Len(s) + (a - p) \in 1..(i - 1) /\ p + (a - p) = a
        BY <3>2, <3>4, <4>1
      <4> QED
        BY <1>3, <4>2
    <3> QED
      BY <3>3, <3>4
  <2> QED
    BY <2>1, <2>2
<1>5. InOrder(u)
  <2> SUFFICES ASSUME NEW i \in 1..Len(u), NEW j \in 1..Len(u), i < j, u[j] < u[i]
               PROVE  \E k \in 1..(i - 1) : u[k] = u[j]
    BY DEF InOrder
  <2>1. CASE j \in 1..Len(s)
    <3>1. i \in 1..Len(s)
      BY <2>1
    <3>2. u[i] = s[i] /\ u[j] = s[j]
      BY <1>9, <2>1, <3>1
    <3>3. PICK k \in 1..(i - 1) : s[k] = s[j]
      BY <2>1, <3>1, <3>2 DEF Follows, InOrder
    <3>4. k \in 1..Len(s)
      BY <3>1
    <3> QED
      BY <1>9, <3>2, <3>3, <3>4
  <2>2. CASE j \notin 1..Len(s)
    <3>1. u[j] = q[p + (j - Len(s))] /\ p + (j - Len(s)) \in 1..Len(q)
      BY <1>10, <2>2
    <3> QED
      BY <1>4, <3>1
  <2> QED
    BY <2>1, <2>2
<1>6. ASSUME NEW a \in 1..(p + n) PROVE \E k \in 1..Len(u) : u[k] = q[a]
  <2>1. CASE a <= p
    <3>1. a \in 1..p
      BY <2>1
    <3>2. PICK k \in 1..Len(s) : s[k] = q[a]
      BY <3>1 DEF Follows
    <3> QED
      BY <1>9, <3>2
  <2>2. CASE a > p
    <3>1. a - p \in 1..n /\ p + (a - p) = a
      BY <2>2
    <3> QED
      BY <1>3, <3>1
  <2> QED
    BY <2>1, <2>2
<1>7. p + n \in 0..Len(q)
  OBVIOUS
<1>8. Follows(u, q, p + n)
  BY <1>4, <1>5, <1>6, <1>7 DEF Follows
<1> QED
  BY <1>8 DEF u, t

(* The drained bytes leave the queue.                                      *)
LEMMA Forgotten ==
    ASSUME NEW s \in Seq(Nat), NEW q \in Seq(Nat), NEW p \in Nat, Follows(s, q, p)
    PROVE  Follows(s, SubSeq(q, p + 1, Len(q)), 0)
<1> DEFINE t == SubSeq(q, p + 1, Len(q))
<1>1. t \in Seq(Nat) /\ Len(t) = Len(q) - p /\ \A i \in 1..Len(t) : t[i] = q[p + i] /\ p + i \in 1..Len(q)
  BY DEF Follows
<1> HIDE DEF t
<1>2. Increasing(t)
  <2> SUFFICES ASSUME NEW a \in 1..Len(t), NEW b \in 1..Len(t), a < b PROVE t[a] < t[b]
    BY DEF Increasing
  <2>1. p + a < p + b
    OBVIOUS
  <2> QED
    BY <1>1, <2>1 DEF Follows, Increasing
<1>3. 0 \in 0..Len(t) /\ 1..0 = {}
  BY <1>1
<1>4. ASSUME NEW a \in 1..Len(t), NEW i \in 1..Len(s), t[a] < s[i] PROVE \E k \in 1..(i - 1) : s[k] = t[a]
  <2>1. t[a] = q[p + a] /\ p + a \in 1..Len(q)
    BY <1>1
  <2> QED
    BY <1>4, <2>1 DEF Follows
<1>5. InOrder(s)
  BY DEF Follows
<1>6. Follows(s, t, 0)
  BY <1>2, <1>3, <1>4, <1>5 DEF Follows
<1> QED
  BY <1>6 DEF t

(* Bytes larger than all the others join the queue.                        *)
LEMMA Joined ==
    ASSUME NEW s \in Seq(Nat), NEW q \in Seq(Nat), NEW p \in Nat, Follows(s, q, p),
           NEW t \in Seq(Nat), Increasing(t),
           \A i \in 1..Len(t) : /\ \A a \in 1..Len(q) : q[a] < t[i]
                                /\ \A k \in 1..Len(s) : s[k] < t[i]
    PROVE  Follows(s, q \o t, p)
<1> DEFINE u == q \o t
<1>1. /\ u \in Seq(Nat) /\ Len(u) = Len(q) + Len(t) /\ Len(q) \in Nat /\ Len(t) \in Nat
      /\ \A i \in 1..Len(u) : u[i] = IF i <= Len(q) THEN q[i] ELSE t[i - Len(q)]
  <2>1. Len(q) \in Nat /\ Len(t) \in Nat
    OBVIOUS
  <2>2. q \o t \in Seq(Nat) /\ Len(q \o t) = Len(q) + Len(t)
    BY Cat
  <2>3. \A i \in 1..(Len(q) + Len(t)) : (q \o t)[i] = IF i <= Len(q) THEN q[i] ELSE t[i - Len(q)]
    BY Cat
  <2> QED
    BY <2>1, <2>2, <2>3
<1> HIDE DEF u
<1>6. \A i \in 1..Len(q) : u[i] = q[i] /\ i \in 1..Len(u)
  BY <1>1
<1>7. \A i \in 1..Len(u) : i \notin 1..Len(q) => i - Len(q) \in 1..Len(t) /\ u[i] = t[i - Len(q)]
  BY <1>1
<1>2. Increasing(u)
  <2> SUFFICES ASSUME NEW a \in 1..Len(u), NEW b \in 1..Len(u), a < b PROVE u[a] < u[b]
    BY DEF Increasing
  <2>1. CASE b \in 1..Len(q)
    BY <1>1, <1>6, <2>1 DEF Follows, Increasing
  <2>2. CASE b \notin 1..Len(q) /\ a \in 1..Len(q)
    BY <1>6, <1>7, <2>2
  <2>3. CASE b \notin 1..Len(q) /\ a \notin 1..Len(q)
    <3>1. a - Len(q) \in 1..Len(t) /\ b - Len(q) \in 1..Len(t) /\ u[a] = t[a - Len(q)] /\ u[b] = t[b - Len(q)]
      BY <1>7, <2>3
    <3>2. a - Len(q) < b - Len(q)
      BY <1>1
    <3> QED
      BY <3>1, <3>2 DEF Increasing
  <2> QED
    BY <2>1, <2>2, <2>3
<1>3. ASSUME NEW a \in 1..Len(u), NEW i \in 1..Len(s), u[a] < s[i] PROVE \E k \in 1..(i - 1) : s[k] = u[a]
  <2>1. CASE a \in 1..Len(q)
    BY <1>6, <1>3, <2>1 DEF Follows
  <2>2. CASE a \notin 1..Len(q)
    <3>1. a - Len(q) \in 1..Len(t) /\ u[a] = t[a - Len(q)]
      BY <1>7, <2>2
    <3>2. PICK b \in 1..Len(t) : u[a] = t[b]
      BY <3>1
    <3>3. s[i] \in Nat /\ t[b] \in Nat
      OBVIOUS
    <3>4. s[i] < t[b]
      OBVIOUS
    <3> QED
      BY <1>3, <3>2, <3>3, <3>4
  <2> QED
    BY <2>1, <2>2
<1>4. p \in 0..Len(u) /\ \A a \in 1..p : a \in 1..Len(q)
  BY <1>1 DEF Follows
<1>5. Follows(s, u, p)
  BY <1>1, <1>2, <1>3, <1>4, <1>6 DEF Follows
<1> QED
  BY <1>5 DEF u

(* The first bytes of the queue stay, none of them drained.                *)
LEMMA Kept ==
    ASSUME NEW s \in Seq(Nat), NEW q \in Seq(Nat), NEW p \in Nat, Follows(s, q, p), NEW t \in Seq(Nat),
           Len(t) <= Len(q), \A i \in 1..Len(t) : t[i] = q[i]
    PROVE  Follows(s, t, 0)
<1>1. \A i \in 1..Len(t) : i \in 1..Len(q)
  OBVIOUS
<1>2. Increasing(t)
  BY <1>1 DEF Follows, Increasing
<1>3. 0 \in 0..Len(t)
  OBVIOUS
<1> QED
  BY <1>1, <1>2, <1>3 DEF Follows

-----------------------------------------------------------------------------
\* What s has sent and what is left of the queue q are 1..nx - 1, in order.
Stream(s, q, p, nx) ==
    /\ (Len(s) + Len(q)) - p = nx - 1
    /\ \A i \in 1..Len(s) : s[i] = i
    /\ \A a \in 1..Len(q) : a > p => q[a] = (Len(s) + a) - p

Here(x, s) == \E i \in 1..Len(s) : s[i] = x

\* The accounts of the bytes 1..nx - 1 the program has written: s is sent, q is
\* on its way with its first p bytes drained, gone was given up after failures.
Account(s, q, p, nx, gone, bad) ==
    /\ Follows(s, q, p)
    /\ \A i \in 1..Len(s) : s[i] < nx
    /\ \A a \in 1..Len(q) : q[a] < nx
    /\ gone \subseteq 1..(nx - 1)
    /\ \A x \in 1..(nx - 1) : Here(x, s) \/ Here(x, q) \/ x \in gone
    /\ ~bad => Stream(s, q, p, nx)

(* The accounts, when n bytes of the queue are drained.                    *)
LEMMA AccountDrained ==
    ASSUME NEW s \in Seq(Nat), NEW q \in Seq(Nat), NEW p \in Nat, NEW n \in Nat, NEW nx \in Nat, NEW gone, NEW bad,
           Account(s, q, p, nx, gone, bad), p + n <= Len(q)
    PROVE  Account(s \o SubSeq(q, p + 1, p + n), q, p + n, nx, gone, bad)
<1> DEFINE t == SubSeq(q, p + 1, p + n)
           u == s \o t
<1>1. Follows(u, q, p + n)
  <2>1. Follows(s, q, p)
    BY DEF Account
  <2> QED
    BY <2>1, Drained, Zenon
<1>4. /\ SubSeq(q, p + 1, p + n) \in Seq(Nat) /\ Len(SubSeq(q, p + 1, p + n)) = n /\ Len(q) \in Nat
      /\ \A i \in 1..n : SubSeq(q, p + 1, p + n)[i] = q[p + i] /\ p + i \in 1..Len(q)
  BY Piece
<1>2. Len(t) = n /\ \A i \in 1..n : t[i] = q[p + i] /\ p + i \in 1..Len(q)
  BY <1>4, Zenon
<1>3. t \in Seq(Nat) /\ Len(q) \in Nat
  BY <1>4, Zenon
<1> HIDE DEF t
<1>6. /\ Len(u) = Len(s) + Len(t) /\ Len(s) \in Nat
      /\ \A i \in 1..(Len(s) + Len(t)) : u[i] = IF i <= Len(s) THEN s[i] ELSE t[i - Len(s)]
  BY <1>3, Cat
<1> HIDE DEF u
<1>7. \A i \in 1..Len(u) : u[i] < nx
  <2> SUFFICES ASSUME NEW i \in 1..Len(u) PROVE u[i] < nx
    OBVIOUS
  <2>1. CASE i <= Len(s)
    <3>1. i \in 1..Len(s) /\ u[i] = s[i]
      BY <1>6, <2>1
    <3> QED
      BY <3>1 DEF Account
  <2>2. CASE ~(i <= Len(s))
    <3>1. i - Len(s) \in 1..n /\ u[i] = t[i - Len(s)]
      BY <1>2, <1>6, <2>2
    <3> QED
      BY <1>2, <3>1 DEF Account
  <2> QED
    BY <2>1, <2>2
<1>8. ASSUME NEW x \in 1..(nx - 1), Here(x, s) PROVE Here(x, u)
  <2>1. PICK i \in 1..Len(s) : s[i] = x
    BY <1>8 DEF Here
  <2>2. i \in 1..Len(u) /\ i <= Len(s)
    BY <1>2, <1>6
  <2> QED
    BY <1>6, <2>1, <2>2 DEF Here
<1>9. ~bad => Stream(u, q, p + n, nx)
  <2> SUFFICES ASSUME ~bad PROVE Stream(u, q, p + n, nx)
    OBVIOUS
  <2>1. Stream(s, q, p, nx)
    BY DEF Account
  <2>2. (Len(u) + Len(q)) - (p + n) = nx - 1
    <3> DEFINE ls == Len(s)
               lq == Len(q)
               lu == Len(u)
    <3>1. (ls + lq) - p = nx - 1
      BY <2>1 DEF Stream
    <3>2. lu = ls + n /\ ls \in Nat /\ lq \in Nat
      BY <1>2, <1>3, <1>6
    <3> HIDE DEF ls, lq, lu
    <3>3. (lu + lq) - (p + n) = nx - 1
      BY <3>1, <3>2
    <3> QED
      BY <3>3 DEF ls, lq, lu
  <2>3. ASSUME NEW i \in 1..Len(u) PROVE u[i] = i
    <3>1. CASE i <= Len(s)
      <4>1. i \in 1..Len(s) /\ i \in 1..(Len(s) + Len(t))
        BY <1>6, <3>1
      <4>2. u[i] = s[i]
        BY <1>6, <3>1, <4>1
      <4>3. s[i] = i
        BY <2>1, <4>1 DEF Stream
      <4> QED
        BY <4>2, <4>3
    <3>2. CASE ~(i <= Len(s))
      <4> DEFINE ls == Len(s)
                 k == i - ls
      <4>1. k \in 1..n /\ u[i] = t[k]
        BY <1>2, <1>6, <3>2
      <4>4. ls \in Nat /\ i \in Nat
        BY <1>6
      <4> HIDE DEF ls
      <4>5. ls + k = i
        BY <4>4
      <4> HIDE DEF k
      <4>2. u[i] = q[p + k] /\ p + k \in 1..Len(q) /\ p + k > p
        BY <1>2, <4>1
      <4>3. q[p + k] = (ls + (p + k)) - p
        BY <2>1, <4>2 DEF Stream, ls
      <4>6. (ls + (p + k)) - p = i
        BY <4>1, <4>4, <4>5
      <4> QED
        BY <4>2, <4>3, <4>6
    <3> QED
      BY <3>1, <3>2
  <2>4. ASSUME NEW a \in 1..Len(q), a > p + n PROVE q[a] = (Len(u) + a) - (p + n)
    <3>1. a > p
      BY <2>4
    <3> QED
      BY <1>2, <1>6, <2>1, <3>1 DEF Stream
  <2> QED
    BY <2>2, <2>3, <2>4 DEF Stream
<1>10. Account(u, q, p + n, nx, gone, bad)
  BY <1>1, <1>7, <1>8, <1>9 DEF Account
<1> QED
  BY <1>10 DEF u, t

(* The accounts, when the drained bytes leave the queue.                   *)
LEMMA AccountForgotten ==
    ASSUME NEW s \in Seq(Nat), NEW q \in Seq(Nat), NEW p \in Nat, NEW nx \in Nat, NEW gone, NEW bad,
           Account(s, q, p, nx, gone, bad)
    PROVE  Account(s, SubSeq(q, p + 1, Len(q)), 0, nx, gone, bad)
<1> DEFINE t == SubSeq(q, p + 1, Len(q))
<1>1. Follows(s, t, 0) /\ p \in 0..Len(q)
  BY Forgotten DEF Account, Follows
<1>2. Len(t) = Len(q) - p /\ Len(q) \in Nat /\ \A i \in 1..Len(t) : t[i] = q[p + i] /\ p + i \in 1..Len(q)
  BY <1>1, SMTT(30)
<1> HIDE DEF t
<1>4. ASSUME NEW x \in 1..(nx - 1), Here(x, q) PROVE Here(x, s) \/ Here(x, t)
  <2>1. PICK a \in 1..Len(q) : q[a] = x
    BY <1>4 DEF Here
  <2>2. CASE a <= p
    <3>1. a \in 1..p
      BY <2>2
    <3> QED
      BY <2>1, <3>1 DEF Account, Follows, Here
  <2>3. CASE a > p
    <3>1. a - p \in 1..Len(t) /\ p + (a - p) = a
      BY <1>1, <1>2, <2>3
    <3> QED
      BY <1>2, <2>1, <3>1 DEF Here
  <2> QED
    BY <2>2, <2>3
<1>5. \A i \in 1..Len(t) : t[i] < nx
  BY <1>2 DEF Account
<1>6. ~bad => Stream(s, t, 0, nx)
  <2> SUFFICES ASSUME ~bad PROVE Stream(s, t, 0, nx)
    OBVIOUS
  <2>1. Stream(s, q, p, nx) /\ Len(s) \in Nat
    BY DEF Account
  <2>2. ASSUME NEW a \in 1..Len(t) PROVE t[a] = (Len(s) + a) - 0
    <3>1. t[a] = q[p + a] /\ p + a \in 1..Len(q) /\ p + a > p
      BY <1>2
    <3>2. q[p + a] = (Len(s) + (p + a)) - p
      BY <2>1, <3>1 DEF Stream
    <3> QED
      BY <2>1, <3>1, <3>2
  <2> QED
    BY <1>2, <2>1, <2>2 DEF Stream
<1>7. Account(s, t, 0, nx, gone, bad)
  BY <1>1, <1>4, <1>5, <1>6 DEF Account
<1> QED
  BY <1>7 DEF t

(* The accounts, when n new bytes join the queue.                          *)
LEMMA AccountJoined ==
    ASSUME NEW s \in Seq(Nat), NEW q \in Seq(Nat), NEW p \in Nat, NEW nx \in Nat \ {0}, NEW n \in Nat, NEW gone, NEW bad,
           Account(s, q, p, nx, gone, bad)
    PROVE  Account(s, q \o [i \in 1..n |-> nx + i - 1], p, nx + n, gone, bad)
<1> DEFINE t == [i \in 1..n |-> nx + i - 1]
           u == q \o t
<1>0. t \in Seq(Nat)
  OBVIOUS
<1>1. Len(t) = n /\ \A i \in 1..n : t[i] = nx + i - 1
  OBVIOUS
<1> HIDE DEF t
<1>2. Increasing(t)
  BY <1>1 DEF Increasing
<1>3. ASSUME NEW i \in 1..Len(t)
      PROVE  (\A a \in 1..Len(q) : q[a] < t[i]) /\ (\A k \in 1..Len(s) : s[k] < t[i])
  <2>1. t[i] \in Nat /\ t[i] >= nx
    BY <1>1
  <2>2. \A a \in 1..Len(q) : q[a] \in Nat /\ q[a] < nx
    BY DEF Account
  <2>3. \A k \in 1..Len(s) : s[k] \in Nat /\ s[k] < nx
    BY DEF Account
  <2>4. \A x \in Nat : x < nx => x < t[i]
    BY <2>1
  <2> QED
    BY <2>2, <2>3, <2>4
<1>4. Follows(s, u, p) /\ p \in 0..Len(q)
  <2>1. Follows(s, q, p)
    BY DEF Account
  <2>2. Follows(s, u, p)
    BY <1>0, <1>2, <1>3, <2>1, Joined
  <2> QED
    BY <2>1, <2>2 DEF Follows
<1>6. /\ Len(u) = Len(q) + Len(t) /\ Len(q) \in Nat /\ u \in Seq(Nat)
      /\ \A i \in 1..(Len(q) + Len(t)) : u[i] = IF i <= Len(q) THEN q[i] ELSE t[i - Len(q)]
  BY <1>0, Cat
<1> HIDE DEF u
<1>8. \A i \in 1..Len(u) : u[i] < nx + n
  <2> SUFFICES ASSUME NEW i \in 1..Len(u) PROVE u[i] < nx + n
    OBVIOUS
  <2>1. CASE i <= Len(q)
    <3>1. i \in 1..Len(q) /\ u[i] = q[i]
      BY <1>6, <2>1
    <3>2. q[i] < nx /\ q[i] \in Nat
      BY <3>1 DEF Account
    <3> QED
      BY <3>1, <3>2
  <2>2. CASE ~(i <= Len(q))
    <3>1. i - Len(q) \in 1..n /\ u[i] = t[i - Len(q)]
      BY <1>1, <1>6, <2>2
    <3> QED
      BY <1>1, <3>1
  <2> QED
    BY <2>1, <2>2
<1>9. \A i \in 1..Len(s) : s[i] < nx + n
  <2>1. \A i \in 1..Len(s) : s[i] < nx /\ s[i] \in Nat
    BY DEF Account
  <2> QED
    BY <2>1
<1>10. ASSUME NEW x \in 1..(nx + n - 1) PROVE Here(x, s) \/ Here(x, u) \/ x \in gone
  <2>1. CASE x < nx
    <3>1. x \in 1..(nx - 1)
      BY <2>1
    <3>2. ASSUME NEW a \in 1..Len(q), q[a] = x PROVE Here(x, u)
      <4>1. a \in 1..Len(u) /\ u[a] = q[a]
        BY <1>1, <1>6
      <4> QED
        BY <3>2, <4>1 DEF Here
    <3> QED
      BY <3>1, <3>2 DEF Account, Here
  <2>2. CASE x >= nx
    <3>1. x - nx + 1 \in 1..n /\ t[x - nx + 1] = x
      BY <1>1, <2>2
    <3>2. Len(u) = Len(q) + n /\ Len(q) \in Nat
      BY <1>1, <1>6
    <3>3. /\ Len(q) + (x - nx + 1) \in 1..Len(u) /\ ~(Len(q) + (x - nx + 1) <= Len(q))
          /\ (Len(q) + (x - nx + 1)) - Len(q) = x - nx + 1
      BY <2>2, <3>1, <3>2
    <3> QED
      BY <1>6, <3>1, <3>3 DEF Here
  <2> QED
    BY <2>1, <2>2
<1>11. ~bad => Stream(s, u, p, nx + n)
  <2> SUFFICES ASSUME ~bad PROVE Stream(s, u, p, nx + n)
    OBVIOUS
  <2>1. Stream(s, q, p, nx) /\ Len(s) \in Nat
    BY DEF Account
  <2>2. (Len(s) + Len(u)) - p = (nx + n) - 1
    <3> DEFINE ls == Len(s)
               lq == Len(q)
               lu == Len(u)
    <3>1. (ls + lq) - p = nx - 1
      BY <2>1 DEF Stream
    <3>2. lu = lq + n /\ ls \in Nat /\ lq \in Nat
      BY <1>1, <1>6, <2>1
    <3> HIDE DEF ls, lq, lu
    <3>3. (ls + lu) - p = (nx + n) - 1
      BY <3>1, <3>2
    <3> QED
      BY <3>3 DEF ls, lq, lu
  <2>3. ASSUME NEW a \in 1..Len(u), a > p PROVE u[a] = (Len(s) + a) - p
    <3>1. CASE a <= Len(q)
      <4>1. a \in 1..Len(q) /\ u[a] = q[a]
        BY <1>1, <1>6, <3>1
      <4> QED
        BY <2>1, <2>3, <4>1 DEF Stream
    <3>2. CASE ~(a <= Len(q))
      <4>1. a - Len(q) \in 1..n /\ u[a] = t[a - Len(q)]
        BY <1>1, <1>6, <3>2
      <4>2. t[a - Len(q)] = nx + (a - Len(q)) - 1
        BY <1>1, <4>1
      <4>3. (Len(s) + Len(q)) - p = nx - 1 /\ Len(s) \in Nat /\ Len(q) \in Nat /\ a \in Nat
        BY <1>6, <2>1 DEF Stream
      <4>4. nx + (a - Len(q)) - 1 = (Len(s) + a) - p
        BY <4>3
      <4> QED
        BY <4>1, <4>2, <4>4
    <3> QED
      BY <3>1, <3>2
  <2> QED
    BY <2>1, <2>2, <2>3 DEF Stream
<1>12. gone \subseteq 1..((nx + n) - 1)
  BY DEF Account
<1>13. \A x \in 1..((nx + n) - 1) : Here(x, s) \/ Here(x, u) \/ x \in gone
  BY <1>10
<1>14. Account(s, u, p, nx + n, gone, bad)
  BY <1>4, <1>8, <1>9, <1>11, <1>12, <1>13, Zenon DEF Account
<1> QED
  BY <1>14 DEF u, t

(* The accounts, when a drain fails: the buffer b keeps what it had, none  *)
(* of it drained, and the bytes d of the call are given up.                *)
LEMMA AccountFailed ==
    ASSUME NEW s \in Seq(Nat), NEW b \in Seq(Nat), NEW d \in Seq(Nat \ {0}), NEW p \in Nat, NEW nx \in Nat, NEW gone, NEW bad,
           Account(s, b \o d, p, nx, gone, bad)
    PROVE  Account(s, b, 0, nx, gone \cup W!ToSet(d), TRUE)
<1> DEFINE q == b \o d
<1>0. d \in Seq(Nat) /\ q \in Seq(Nat)
  <2>1. d \in Seq(Nat)
    BY Larger
  <2> QED
    BY <2>1
<1>1. \A i \in 1..Len(d) : d[i] \in Nat \ {0}
  OBVIOUS
<1>2. /\ Len(q) = Len(b) + Len(d) /\ Len(b) \in Nat /\ Len(d) \in Nat
      /\ \A i \in 1..(Len(b) + Len(d)) : q[i] = IF i <= Len(b) THEN b[i] ELSE d[i - Len(b)]
  BY <1>0, Cat
<1> HIDE DEF q
<1>3. \A i \in 1..Len(b) : i \in 1..Len(q) /\ b[i] = q[i]
  BY <1>2
<1>4. \A i \in 1..Len(d) : Len(b) + i \in 1..Len(q) /\ d[i] = q[Len(b) + i]
  <2> SUFFICES ASSUME NEW i \in 1..Len(d) PROVE Len(b) + i \in 1..Len(q) /\ d[i] = q[Len(b) + i]
    OBVIOUS
  <2>1. Len(b) + i \in 1..(Len(b) + Len(d)) /\ ~(Len(b) + i <= Len(b)) /\ (Len(b) + i) - Len(b) = i
    BY <1>2
  <2> QED
    BY <1>2, <2>1
<1>5. Account(s, q, p, nx, gone, bad)
  BY DEF q
<1>6. Follows(s, b, 0)
  <2>1. Follows(s, q, p)
    BY <1>5 DEF Account
  <2>2. Len(b) <= Len(q)
    BY <1>2
  <2> QED
    BY <1>0, <1>3, <2>1, <2>2, Kept
<1>7. W!ToSet(d) \subseteq 1..(nx - 1)
  <2>0. DOMAIN d = 1..Len(d)
    BY <1>0
  <2> SUFFICES ASSUME NEW i \in 1..Len(d) PROVE d[i] \in 1..(nx - 1)
    BY <2>0 DEF W!ToSet
  <2>1. d[i] < nx /\ d[i] \in Nat \ {0}
    BY <1>1, <1>4, <1>5 DEF Account
  <2> QED
    BY <2>1
<1>8. ASSUME NEW x \in 1..(nx - 1), Here(x, q) PROVE Here(x, b) \/ x \in W!ToSet(d)
  <2>1. PICK a \in 1..Len(q) : q[a] = x
    BY <1>8 DEF Here
  <2>2. CASE a <= Len(b)
    <3>1. a \in 1..Len(b) /\ b[a] = x
      BY <1>2, <2>1, <2>2
    <3> QED
      BY <3>1 DEF Here
  <2>3. CASE ~(a <= Len(b))
    <3>1. a - Len(b) \in 1..Len(d) /\ d[a - Len(b)] = x
      BY <1>2, <2>1, <2>3
    <3>2. a - Len(b) \in DOMAIN d
      BY <1>0, <3>1
    <3> QED
      BY <3>1, <3>2 DEF W!ToSet
  <2> QED
    BY <2>2, <2>3
<1> QED
  BY <1>3, <1>5, <1>6, <1>7, <1>8 DEF Account

-----------------------------------------------------------------------------
\* What the place of the call says of its data.
InCall ==
    /\ pc = "idle" => data = <<>>
    /\ pc = "flush" /\ cont = "idle" => data = <<>>
    /\ pc # "flush" => pos = 0
    /\ pc = "direct" => buf = <<>>
    /\ pc = "byte" => buf = <<>> \/ Len(buf) < Cap
    /\ pc = "byte" \/ (pc = "flush" /\ cont = "byte") => Len(data) = 1

\* The buffer holds no more than its capacity.  Without capacity it holds the
\* byte that writeByte stored, and nothing is copied into it.
Room ==
    IF Cap = 0 THEN (pc = "copy" => data = <<>>) /\ (pc = "flush" => cont # "copy")
    ELSE Len(buf) <= Cap

Accounts == Account(sent, Queue, pos, next, dropped, failed)

WriterInv == W!TypeOK /\ InCall /\ Room /\ Accounts

(* The types, in the terms of the lemmas.                                  *)
LEMMA WriterTypes ==
    ASSUME W!TypeOK
    PROVE  /\ buf \in Seq(Nat) /\ data \in Seq(Nat \ {0}) /\ data \in Seq(Nat) /\ sent \in Seq(Nat)
           /\ Queue \in Seq(Nat)
           /\ pos \in Nat /\ pos <= Len(buf) /\ Len(buf) \in Nat /\ Len(data) \in Nat
           /\ next \in Nat \ {0} /\ next <= MaxBytes + 1 /\ MaxBytes \in Nat /\ Cap \in Nat
<1>1. 1..MaxBytes \subseteq Nat /\ 1..MaxBytes \subseteq Nat \ {0}
  OBVIOUS
<1>2. buf \in Seq(1..MaxBytes) /\ data \in Seq(1..MaxBytes) /\ sent \in Seq(1..MaxBytes)
  BY DEF W!TypeOK
<1>3. buf \in Seq(Nat) /\ data \in Seq(Nat \ {0}) /\ data \in Seq(Nat) /\ sent \in Seq(Nat)
  BY <1>1, <1>2, Larger
<1>4. Len(buf) \in Nat /\ Len(data) \in Nat
  BY <1>3
<1>5. Queue \in Seq(Nat)
  BY <1>3 DEF Queue
<1>6. MaxBytes \in Nat /\ Cap \in Nat
  BY WriterAssumption
<1>7. pos \in 0..Len(buf) /\ next \in 1..(MaxBytes + 1)
  BY DEF W!TypeOK
<1>8. pos \in Nat /\ pos <= Len(buf)
  BY <1>4, <1>7
<1>9. next \in Nat \ {0} /\ next <= MaxBytes + 1
  BY <1>6, <1>7
<1> QED
  BY <1>3, <1>4, <1>5, <1>6, <1>8, <1>9

(* It holds before the first call.                                         *)
LEMMA WriterInit == W!Init => WriterInv
<1> SUFFICES ASSUME W!Init PROVE WriterInv
  OBVIOUS
<1>1. buf = <<>> /\ data = <<>> /\ sent = <<>> /\ pos = 0 /\ pc = "idle" /\ cont = "idle"
      /\ next = 1 /\ dropped = {} /\ failed = FALSE
  BY DEF W!Init
<1>2. <<>> \in Seq(1..MaxBytes) /\ Len(<<>>) = 0 /\ 0 \in 0..0 /\ 1 \in 1..(MaxBytes + 1)
  BY WriterAssumption
<1>3. W!TypeOK
  BY <1>1, <1>2 DEF W!TypeOK
<1>4. InCall /\ Room
  BY <1>1, <1>2, WriterAssumption DEF InCall, Room
<1>5. Accounts
  <2>1. Queue = <<>>
    BY <1>1 DEF Queue
  <2>2. Follows(<<>>, <<>>, 0)
    BY DEF Follows, InOrder, Increasing
  <2>3. Stream(<<>>, <<>>, 0, 1)
    BY DEF Stream
  <2> QED
    BY <1>1, <2>1, <2>2, <2>3 DEF Accounts, Account, Here
<1> QED
  BY <1>3, <1>4, <1>5 DEF WriterInv

(* The bytes of a new call.                                                *)
LEMMA NewBytes ==
    ASSUME WriterInv, NEW n \in Nat, next + n - 1 <= MaxBytes
    PROVE  /\ W!Bytes(n) \in Seq(1..MaxBytes) /\ Len(W!Bytes(n)) = n
           /\ next + n \in 1..(MaxBytes + 1)
           /\ data = <<>> => Account(sent, buf \o W!Bytes(n), pos, next + n, dropped, failed)
<1>1. next \in Nat \ {0} /\ MaxBytes \in Nat /\ buf \in Seq(Nat) /\ sent \in Seq(Nat) /\ pos \in Nat
  BY WriterTypes DEF WriterInv
<1>2. \A i \in 1..n : next + i - 1 \in 1..MaxBytes
  BY <1>1
<1>3. W!Bytes(n) \in Seq(1..MaxBytes) /\ Len(W!Bytes(n)) = n
  BY <1>2 DEF W!Bytes
<1>4. next + n \in 1..(MaxBytes + 1)
  BY <1>1
<1>5. ASSUME data = <<>> PROVE Account(sent, buf \o W!Bytes(n), pos, next + n, dropped, failed)
  <2>1. Queue = buf
    BY <1>1, <1>5, CatEmpty DEF Queue
  <2>2. Account(sent, buf, pos, next, dropped, failed)
    BY <2>1 DEF WriterInv, Accounts
  <2> QED
    BY <1>1, <2>2, AccountJoined DEF W!Bytes
<1> QED
  BY <1>3, <1>4, <1>5

(* A call of writeByte or writeAll begins.                                 *)
LEMMA BeginStep ==
    ASSUME WriterInv, W!WriteByte \/ \E n \in 0..MaxBytes : W!WriteAll(n)
    PROVE  WriterInv'
<1>1. PICK n \in Nat :
          /\ pc = "idle" /\ next + n - 1 <= MaxBytes
          /\ data' = W!Bytes(n) /\ next' = next + n
          /\ UNCHANGED <<buf, sent, dropped, failed>>
          /\ \/ n = 1 /\ Len(buf) >= Cap /\ pc' = "flush" /\ cont' = "byte" /\ pos' = 0
             \/ n = 1 /\ ~(Len(buf) >= Cap) /\ pc' = "byte" /\ UNCHANGED <<cont, pos>>
             \/ n > Cap /\ pc' = "flush" /\ cont' = "direct" /\ pos' = 0
             \/ n <= Cap /\ pc' = "copy" /\ UNCHANGED <<cont, pos>>
  <2>1. ASSUME W!WriteByte PROVE next + 1 - 1 <= MaxBytes
    BY <2>1, WriterTypes DEF W!WriteByte, WriterInv
  <2>2. CASE W!WriteByte
    BY <2>1, <2>2 DEF W!WriteByte, W!Flush
  <2>3. CASE \E n \in 0..MaxBytes : W!WriteAll(n)
    <3>1. PICK n \in 0..MaxBytes : W!WriteAll(n)
      BY <2>3
    <3>2. n \in Nat /\ Cap \in Nat
      BY WriterAssumption
    <3> QED
      BY <3>1, <3>2 DEF W!WriteAll, W!Flush
  <2> QED
    BY <2>2, <2>3
<1>2. data = <<>> /\ pos = 0 /\ pos' = 0
  BY <1>1 DEF WriterInv, InCall
<1>3. /\ W!Bytes(n) \in Seq(1..MaxBytes) /\ Len(W!Bytes(n)) = n /\ next + n \in 1..(MaxBytes + 1)
      /\ Account(sent, buf \o W!Bytes(n), pos, next + n, dropped, failed)
  BY <1>1, <1>2, NewBytes
<1>4. W!TypeOK'
  <2>1. /\ data' \in Seq(1..MaxBytes) /\ next' \in 1..(MaxBytes + 1)
        /\ pc' \in {"idle", "flush", "byte", "copy", "direct"} /\ cont' \in {"idle", "byte", "copy", "direct"}
    BY <1>1, <1>3 DEF WriterInv, W!TypeOK
  <2>2. pos' \in 0..Len(buf')
    BY <1>1, <1>2 DEF WriterInv, W!TypeOK
  <2> QED
    BY <1>1, <2>1, <2>2 DEF WriterInv, W!TypeOK
<1>5. Len(buf) \in Nat /\ Cap \in Nat /\ (n = 0 => data' = <<>>) /\ Len(data') = n
  BY <1>1, <1>3, WriterTypes DEF WriterInv
<1>6. InCall'
  BY <1>1, <1>2, <1>5 DEF InCall
<1>7. Room'
  BY <1>1, <1>5 DEF Room, WriterInv
<1>8. Accounts'
  BY <1>1, <1>2, <1>3 DEF Accounts, Queue
<1> QED
  BY <1>4, <1>6, <1>7, <1>8 DEF WriterInv

(* writeByte stores the byte; flush is called; a call returns.             *)
LEMMA PutStep == ASSUME WriterInv, W!PutByte PROVE WriterInv'
<1>1. /\ pc = "byte" /\ buf' = Queue /\ data' = <<>> /\ pc' = "idle"
      /\ UNCHANGED <<pos, cont, next, sent, dropped, failed>>
  BY DEF W!PutByte, Queue
<1>2. Queue \in Seq(1..MaxBytes) /\ Len(Queue) = Len(buf) + 1 /\ Len(buf) \in Nat /\ Cap \in Nat
  <2>1. Len(data) = 1 /\ Len(buf) \in Nat /\ Cap \in Nat
    BY <1>1, WriterTypes DEF WriterInv, InCall
  <2>2. buf \in Seq(1..MaxBytes) /\ data \in Seq(1..MaxBytes)
    BY DEF WriterInv, W!TypeOK
  <2>3. buf \o data \in Seq(1..MaxBytes) /\ Len(buf \o data) = Len(buf) + Len(data)
    BY <2>2, Cat, Zenon
  <2> QED
    BY <2>1, <2>3 DEF Queue
<1>3. pos = 0 /\ (buf = <<>> \/ Len(buf) < Cap)
  BY <1>1 DEF WriterInv, InCall
<1>4. Queue' = Queue
  BY <1>1, <1>2, CatEmpty DEF Queue
<1>5. W!TypeOK'
  <2>1. pos' \in 0..Len(buf') /\ data' \in Seq(1..MaxBytes)
    <3>1. Len(buf') \in Nat /\ pos' = 0 /\ data' = <<>>
      BY <1>1, <1>2, <1>3
    <3> QED
      BY <3>1
  <2> QED
    BY <1>1, <1>2, <2>1 DEF WriterInv, W!TypeOK
<1>6. InCall'
  BY <1>1, <1>3 DEF InCall
<1>7. Room'
  <2>1. Cap # 0 => Len(buf') <= Cap
    BY <1>1, <1>2, <1>3
  <2> QED
    BY <1>1, <2>1 DEF Room
<1> QED
  BY <1>1, <1>4, <1>5, <1>6, <1>7 DEF WriterInv, Accounts

(* A call of flush begins, or a write has nothing left to do.              *)
LEMMA CallStep == ASSUME WriterInv, W!CallFlush \/ W!Written PROVE WriterInv'
<1>1. /\ data = <<>> /\ pos = 0 /\ pos' = 0 /\ pc' \in {"flush", "idle"} /\ (pc' = "flush" => cont' = "idle")
      /\ cont' \in {cont, "idle"}
      /\ UNCHANGED <<buf, data, next, sent, dropped, failed>>
  BY DEF W!CallFlush, W!Written, W!Flush, WriterInv, InCall
<1>2. W!TypeOK'
  BY <1>1 DEF WriterInv, W!TypeOK
<1>3. InCall' /\ Room'
  BY <1>1 DEF WriterInv, InCall, Room
<1>4. Accounts'
  BY <1>1 DEF WriterInv, Accounts, Queue
<1> QED
  BY <1>2, <1>3, <1>4 DEF WriterInv

(* A chunk is staged, no longer than the space left.                       *)
LEMMA CopyStep == ASSUME WriterInv, W!CopyChunk PROVE WriterInv'
<1> DEFINE chunk == W!Min({Len(data), Cap - Len(buf)})
<1>1. /\ pc = "copy" /\ data # <<>> /\ pos = 0 /\ pos' = 0
      /\ buf' = buf \o SubSeq(data, 1, chunk)
      /\ data' = SubSeq(data, chunk + 1, Len(data))
      /\ \/ pc' = "flush" /\ cont' = "copy"
         \/ pc' = "copy" /\ cont' = cont
      /\ UNCHANGED <<next, sent, dropped, failed>>
  BY DEF W!CopyChunk, W!Flush, WriterInv, InCall
<1>2. Len(buf) \in Nat /\ Len(data) \in Nat /\ Cap \in Nat \ {0} /\ Len(buf) <= Cap
  BY <1>1, WriterTypes DEF WriterInv, Room
<1>3. chunk \in Nat /\ chunk <= Len(data) /\ chunk <= Cap - Len(buf)
  <2> DEFINE a == Len(data)
             b == Cap - Len(buf)
  <2>1. a \in Nat /\ b \in Nat
    BY <1>2
  <2> HIDE DEF a, b
  <2>2. \E x \in {a, b} : \A y \in {a, b} : x <= y
    BY <2>1
  <2>3. W!Min({a, b}) \in {a, b} /\ \A y \in {a, b} : W!Min({a, b}) <= y
    BY <2>2 DEF W!Min
  <2>4. W!Min({a, b}) \in Nat /\ W!Min({a, b}) <= a /\ W!Min({a, b}) <= b
    BY <2>1, <2>3
  <2> QED
    BY <2>4 DEF a, b
<1> HIDE DEF chunk
<1>4. buf \in Seq(1..MaxBytes) /\ data \in Seq(1..MaxBytes)
  BY DEF WriterInv, W!TypeOK
<1>5. buf' \in Seq(1..MaxBytes) /\ data' \in Seq(1..MaxBytes) /\ Len(buf') = Len(buf) + chunk
  <2> DEFINE x == SubSeq(data, 1, chunk)
  <2>1. x \in Seq(1..MaxBytes) /\ Len(x) = chunk
    BY <1>3, <1>4, Halves
  <2>2. SubSeq(data, chunk + 1, Len(data)) \in Seq(1..MaxBytes)
    BY <1>3, <1>4, Halves
  <2>3. buf' = buf \o x
    BY <1>1
  <2> HIDE DEF x
  <2>4. buf \o x \in Seq(1..MaxBytes) /\ Len(buf \o x) = Len(buf) + Len(x)
    BY <1>4, <2>1, Cat, Zenon
  <2>5. data' \in Seq(1..MaxBytes)
    <3>1. data' = SubSeq(data, chunk + 1, Len(data))
      BY <1>1
    <3> QED
      BY <2>2, <3>1, Zenon
  <2>6. buf' \in Seq(1..MaxBytes) /\ Len(buf') = Len(buf) + Len(x)
    BY <2>3, <2>4, Zenon
  <2> QED
    BY <2>1, <2>5, <2>6
<1>6. Queue' = Queue
  BY <1>1, <1>3, <1>4, Moved DEF Queue
<1>7. W!TypeOK'
  <2>1. pos' \in 0..Len(buf')
    BY <1>1, <1>2, <1>3, <1>5
  <2> QED
    BY <1>1, <1>5, <2>1 DEF WriterInv, W!TypeOK
<1>8. InCall'
  BY <1>1 DEF InCall
<1>9. Room'
  BY <1>2, <1>3, <1>5 DEF Room
<1> QED
  BY <1>1, <1>6, <1>7, <1>8, <1>9 DEF WriterInv, Accounts

(* A drain of the loop of flush.                                           *)
LEMMA FlushDrainStep == ASSUME WriterInv, NEW n \in 1..MaxBytes, W!FlushDrain(n) PROVE WriterInv'
<1>1. /\ pc = "flush" /\ n <= Len(buf) - pos
      /\ sent' = sent \o SubSeq(buf, pos + 1, pos + n)
      /\ pos' = pos + n
      /\ UNCHANGED <<buf, data, pc, cont, next, dropped, failed>>
  BY DEF W!FlushDrain
<1>2. W!TypeOK
  BY DEF WriterInv
<1>3. n \in Nat /\ pos \in Nat /\ pos + n \in Nat /\ pos + n <= Len(buf) /\ pos <= pos + n
  <2> DEFINE lb == Len(buf)
  <2>1. pos \in Nat /\ lb \in Nat
    BY <1>2, WriterTypes
  <2>2. n <= lb - pos
    BY <1>1
  <2> HIDE DEF lb
  <2>3. n \in Nat
    OBVIOUS
  <2>4. pos + n \in Nat /\ pos + n <= lb /\ pos <= pos + n
    BY <2>1, <2>2, <2>3
  <2> QED
    BY <2>1, <2>3, <2>4 DEF lb
<1>4. buf \in Seq(1..MaxBytes) /\ data \in Seq(1..MaxBytes) /\ sent \in Seq(1..MaxBytes)
  BY <1>2 DEF W!TypeOK
<1>5. sent' \in Seq(1..MaxBytes)
  <2> DEFINE x == SubSeq(buf, pos + 1, pos + n)
  <2>1. x \in Seq(1..MaxBytes)
    BY <1>3, <1>4, Cut, Zenon
  <2>2. sent' = sent \o x
    BY <1>1
  <2> HIDE DEF x
  <2>3. sent \o x \in Seq(1..MaxBytes)
    BY <1>4, <2>1, Cat, Zenon
  <2> QED
    BY <2>2, <2>3, Zenon
<1>6. W!TypeOK'
  <2>1. pos' \in 0..Len(buf')
    BY <1>1, <1>3
  <2> QED
    BY <1>1, <1>2, <1>5, <2>1 DEF W!TypeOK
<1>7. Accounts'
  <2>1. SubSeq(Queue, pos + 1, pos + n) = SubSeq(buf, pos + 1, pos + n)
    <3>1. SubSeq(buf \o data, pos + 1, pos + n) = SubSeq(buf, pos + 1, pos + n)
      BY <1>3, <1>4, CutFirst
    <3> QED
      BY <3>1 DEF Queue
  <2>2. pos + n <= Len(Queue)
    <3>1. Len(Queue) = Len(buf) + Len(data) /\ Len(data) \in Nat
      BY <1>4, Cat DEF Queue
    <3> DEFINE lb == Len(buf)
               ld == Len(data)
    <3>2. ld \in Nat /\ lb \in Nat
      BY <1>4
    <3> HIDE DEF lb, ld
    <3>3. pos + n <= lb => pos + n <= lb + ld
      BY <1>3, <3>2
    <3> QED
      BY <1>3, <3>1, <3>3 DEF lb, ld
  <2>3. sent \in Seq(Nat) /\ Queue \in Seq(Nat) /\ next \in Nat
    BY <1>2, WriterTypes
  <2>4. Account(sent, Queue, pos, next, dropped, failed)
    BY DEF WriterInv, Accounts
  <2>5. Account(sent \o SubSeq(Queue, pos + 1, pos + n), Queue, pos + n, next, dropped, failed)
    BY <1>3, <2>2, <2>3, <2>4, AccountDrained
  <2>6. Queue' = Queue
    BY <1>1 DEF Queue
  <2>7. sent' = sent \o SubSeq(Queue, pos + 1, pos + n)
    BY <1>1, <2>1
  <2> QED
    BY <1>1, <2>5, <2>6, <2>7, Zenon DEF Accounts
<1>8. InCall'
  BY <1>1 DEF WriterInv, InCall
<1>9. Room'
  BY <1>1 DEF WriterInv, Room
<1> QED
  BY <1>6, <1>7, <1>8, <1>9 DEF WriterInv

(* A drain of a write that goes past the buffer.                           *)
LEMMA DirectDrainStep == ASSUME WriterInv, NEW n \in 1..MaxBytes, W!DirectDrain(n) PROVE WriterInv'
<1>1. /\ pc = "direct" /\ n <= Len(data)
      /\ sent' = sent \o SubSeq(data, 1, n)
      /\ data' = SubSeq(data, n + 1, Len(data))
      /\ UNCHANGED <<buf, pos, pc, cont, next, dropped, failed>>
  BY DEF W!DirectDrain
<1>2. W!TypeOK /\ buf = <<>> /\ pos = 0
  BY <1>1 DEF WriterInv, InCall
<1>3. n \in Nat /\ Len(data) \in Nat /\ n <= Len(data)
  BY <1>1, <1>2, WriterTypes
<1>4. data \in Seq(1..MaxBytes) /\ sent \in Seq(1..MaxBytes)
  BY <1>2 DEF W!TypeOK
<1>5. sent' \in Seq(1..MaxBytes)
  <2> DEFINE x == SubSeq(data, 1, n)
  <2>1. x \in Seq(1..MaxBytes)
    BY <1>3, <1>4, Halves
  <2>2. sent' = sent \o x
    BY <1>1
  <2> HIDE DEF x
  <2>3. sent \o x \in Seq(1..MaxBytes)
    BY <1>4, <2>1, Cat, Zenon
  <2> QED
    BY <2>2, <2>3, Zenon
<1>6. data' \in Seq(1..MaxBytes)
  <2>1. SubSeq(data, n + 1, Len(data)) \in Seq(1..MaxBytes)
    BY <1>3, <1>4, Halves
  <2>2. data' = SubSeq(data, n + 1, Len(data))
    BY <1>1
  <2> QED
    BY <2>1, <2>2, Zenon
<1>7. W!TypeOK'
  <2>1. buf' \in Seq(1..MaxBytes) /\ pos' \in 0..Len(buf')
    BY <1>1, <1>2 DEF W!TypeOK
  <2> QED
    BY <1>1, <1>2, <1>5, <1>6, <2>1 DEF W!TypeOK
<1>8. Accounts'
  <2>1. Queue = data
    BY <1>2, <1>4, CatEmpty DEF Queue
  <2>2. Queue' = data'
    <3>1. buf' = <<>> /\ <<>> \o data' = data'
      BY <1>1, <1>2, <1>6, CatEmpty, Zenon
    <3> QED
      BY <3>1 DEF Queue
  <2>3. sent \in Seq(Nat) /\ data \in Seq(Nat) /\ next \in Nat
    BY <1>2, WriterTypes
  <2>4. Account(sent, data, 0, next, dropped, failed)
    BY <1>2, <2>1 DEF WriterInv, Accounts
  <2>5. Account(sent \o SubSeq(data, 0 + 1, 0 + n), data, 0 + n, next, dropped, failed)
    <3>1. 0 + n <= Len(data) /\ 0 \in Nat
      BY <1>3
    <3> QED
      BY <1>3, <2>3, <2>4, <3>1, AccountDrained
  <2>6. Account(sent', data, n, next, dropped, failed)
    <3>1. 0 + 1 = 1 /\ 0 + n = n
      BY <1>3
    <3> QED
      BY <1>1, <2>5, <3>1
  <2>7. sent' \in Seq(Nat)
    <3>1. 1..MaxBytes \subseteq Nat
      OBVIOUS
    <3> QED
      BY <1>5, <3>1, Larger
  <2>8. Account(sent', SubSeq(data, n + 1, Len(data)), 0, next, dropped, failed)
    BY <1>3, <2>3, <2>6, <2>7, AccountForgotten
  <2>9. data' = SubSeq(data, n + 1, Len(data)) /\ pos' = 0 /\ next' = next /\ dropped' = dropped /\ failed' = failed
    BY <1>1, <1>2
  <2> QED
    BY <2>2, <2>8, <2>9, Zenon DEF Accounts
<1>9. InCall' /\ Room'
  BY <1>1, <1>2 DEF WriterInv, InCall, Room
<1> QED
  BY <1>7, <1>8, <1>9 DEF WriterInv

(* The buffer is drained and begins anew.                                  *)
LEMMA FlushedStep == ASSUME WriterInv, W!Flushed PROVE WriterInv'
<1>1. /\ pc = "flush" /\ pos = Len(buf)
      /\ buf' = <<>> /\ pos' = 0 /\ pc' = cont
      /\ UNCHANGED <<data, cont, next, sent, dropped, failed>>
  BY DEF W!Flushed
<1>2. W!TypeOK
  BY DEF WriterInv
<1>3. buf \in Seq(1..MaxBytes) /\ data \in Seq(1..MaxBytes)
  BY <1>2 DEF W!TypeOK
<1>4. W!TypeOK'
  <2>1. buf' \in Seq(1..MaxBytes) /\ pos' \in 0..Len(buf')
    BY <1>1
  <2> QED
    BY <1>1, <1>2, <2>1 DEF W!TypeOK
<1>5. Accounts'
  <2>1. SubSeq(Queue, pos + 1, Len(Queue)) = data
    BY <1>1, <1>3, CutSecond, Zenon DEF Queue
  <2>2. Queue' = data
    BY <1>1, <1>3, CatEmpty DEF Queue
  <2>3. sent \in Seq(Nat) /\ Queue \in Seq(Nat) /\ next \in Nat /\ pos \in Nat
    BY <1>2, WriterTypes
  <2>4. Account(sent, Queue, pos, next, dropped, failed)
    BY DEF WriterInv, Accounts
  <2>5. Account(sent, SubSeq(Queue, pos + 1, Len(Queue)), 0, next, dropped, failed)
    BY <2>3, <2>4, AccountForgotten
  <2> QED
    BY <1>1, <2>1, <2>2, <2>5, Zenon DEF Accounts
<1>6. InCall'
  BY <1>1 DEF WriterInv, InCall, W!TypeOK
<1>7. Room'
  <2>1. Len(buf') = 0 /\ Cap \in Nat
    BY <1>1, WriterAssumption
  <2> QED
    BY <1>1, <2>1 DEF WriterInv, Room
<1> QED
  BY <1>4, <1>5, <1>6, <1>7 DEF WriterInv

(* A drain fails: the call ends and what is left of its bytes is dropped,  *)
(* the buffer stays.                                                       *)
LEMMA FailStep == ASSUME WriterInv, W!DrainFails PROVE WriterInv'
<1>1. /\ pc' = "idle" /\ pos' = 0 /\ data' = <<>>
      /\ dropped' = dropped \cup W!ToSet(data)
      /\ failed' = TRUE
      /\ UNCHANGED <<buf, cont, next, sent>>
  BY DEF W!DrainFails
<1>2. W!TypeOK
  BY DEF WriterInv
<1>3. buf \in Seq(1..MaxBytes) /\ data \in Seq(1..MaxBytes)
  BY <1>2 DEF W!TypeOK
<1>4. W!ToSet(data) \subseteq 1..MaxBytes
  <2>1. \A i \in DOMAIN data : data[i] \in 1..MaxBytes
    <3>1. data \in Seq(1..MaxBytes)
      BY <1>3
    <3> QED
      BY <3>1, Elements, Zenon
  <2> QED
    BY <2>1 DEF W!ToSet
<1>5. W!TypeOK'
  <2>1. data' \in Seq(1..MaxBytes) /\ pos' \in 0..Len(buf')
    BY <1>1, <1>3
  <2>2. dropped' \subseteq 1..MaxBytes
    BY <1>1, <1>2, <1>4 DEF W!TypeOK
  <2> QED
    BY <1>1, <1>2, <2>1, <2>2 DEF W!TypeOK
<1>6. Accounts'
  <2>1. buf \in Seq(Nat) /\ data \in Seq(Nat \ {0}) /\ sent \in Seq(Nat) /\ next \in Nat /\ pos \in Nat
    BY <1>2, WriterTypes
  <2>2. Account(sent, buf \o data, pos, next, dropped, failed)
    BY DEF WriterInv, Accounts, Queue
  <2>3. Account(sent, buf, 0, next, dropped \cup W!ToSet(data), TRUE)
    BY <2>1, <2>2, AccountFailed
  <2>4. Queue' = buf
    BY <1>1, <1>3, CatEmpty DEF Queue
  <2> QED
    BY <1>1, <2>3, <2>4, Zenon DEF Accounts
<1>7. InCall' /\ Room'
  BY <1>1 DEF WriterInv, InCall, Room
<1> QED
  BY <1>5, <1>6, <1>7 DEF WriterInv

-----------------------------------------------------------------------------
(* Every step of the writer keeps the invariant.                           *)
LEMMA WriterStep == WriterInv /\ [W!Next]_writer => WriterInv'
<1> SUFFICES ASSUME WriterInv, [W!Next]_writer PROVE WriterInv'
  OBVIOUS
<1>1. CASE UNCHANGED writer
  <2>1. Queue' = Queue
    BY <1>1 DEF writer, Queue
  <2> QED
    BY <1>1, <2>1 DEF writer, WriterInv, W!TypeOK, InCall, Room, Accounts
<1>2. CASE W!WriteByte
  BY <1>2, BeginStep
<1>3. CASE W!CallFlush \/ W!Written
  BY <1>3, CallStep
<1>4. CASE W!PutByte
  BY <1>4, PutStep
<1>5. CASE W!CopyChunk
  BY <1>5, CopyStep
<1>6. CASE W!Flushed
  BY <1>6, FlushedStep
<1>7. CASE W!DrainFails
  BY <1>7, FailStep
<1>8. ASSUME NEW n \in 1..MaxBytes, W!FlushDrain(n) \/ W!DirectDrain(n) PROVE WriterInv'
  BY <1>8, FlushDrainStep, DirectDrainStep
<1>9. ASSUME NEW n \in 0..MaxBytes, W!WriteAll(n) PROVE WriterInv'
  BY <1>9, BeginStep
<1> QED
  BY <1>1, <1>2, <1>3, <1>4, <1>5, <1>6, <1>7, <1>8, <1>9 DEF W!Next, W!Running

(* The accounts of the bytes hold in every run of the writer.              *)
THEOREM WriterInvariance == StdSpec => []WriterInv
<1>1. StdInit => WriterInv
  BY WriterInit DEF StdInit
<1>2. WriterInv /\ [StdNext]_all => WriterInv'
  BY WriterStep DEF StdNext, all
<1> QED
  BY <1>1, <1>2, PTL DEF StdSpec

(* A writer that was given some capacity never stores past it (writeByte,  *)
(* the chunks of writeAll).  Without capacity writeByte stores a byte past *)
(* the end.                                                                *)
THEOREM NeverPastTheBuffer == ASSUME Cap > 0 PROVE StdSpec => []WithinBuffer
<1>1. WriterInv => WithinBuffer
  BY DEF WriterInv, Room, WithinBuffer, W!WithinBuffer
<1> QED
  BY <1>1, WriterInvariance, PTL

(* While no drain fails the sink has what was written, in order, up to     *)
(* what is on its way: for any capacity, sizes of writes and short drains. *)
THEOREM StreamIsExact == StdSpec => []StreamExact
<1>1. WriterInv => StreamExact
  <2> SUFFICES ASSUME WriterInv, ~failed
               PROVE  sent \o SubSeq(buf, pos + 1, Len(buf)) \o data = [i \in 1..(next - 1) |-> i]
    BY DEF StreamExact, W!StreamExact
  <2> DEFINE rest == SubSeq(buf, pos + 1, Len(buf))
             way == SubSeq(Queue, pos + 1, Len(Queue))
             N == next - 1
  <2>1. /\ buf \in Seq(Nat) /\ data \in Seq(Nat) /\ sent \in Seq(Nat) /\ Queue \in Seq(Nat)
        /\ pos \in Nat /\ pos <= Len(buf) /\ N \in Nat
    BY WriterTypes DEF WriterInv
  <2>2. rest \in Seq(Nat) /\ way \in Seq(Nat)
    BY <2>1
  <2>3. way = rest \o data
    BY <2>1, CutOfCat DEF Queue
  <2>4. Account(sent, Queue, pos, next, dropped, failed)
    BY DEF WriterInv, Accounts
  <2>5. Account(sent, way, 0, next, dropped, failed)
    <3>1. next \in Nat
      BY WriterTypes DEF WriterInv
    <3> QED
      BY <2>1, <2>4, <3>1, AccountForgotten
  <2> HIDE DEF rest, way
  <2>6. (sent \o rest) \o data = sent \o way
    <3>1. (sent \o rest) \o data = sent \o (rest \o data)
      <4>1. sent \in Seq(Nat) /\ rest \in Seq(Nat) /\ data \in Seq(Nat)
        BY <2>1, <2>2
      <4> QED
        BY <4>1
    <3> QED
      BY <2>3, <3>1
  <2>7. Stream(sent, way, 0, next)
    BY <2>5 DEF Account
  <2> DEFINE u == sent \o way
  <2>13. sent \in Seq(Nat) /\ way \in Seq(Nat)
    BY <2>1, <2>2
  <2>8. u \in Seq(Nat) /\ Len(u) = Len(sent) + Len(way) /\ Len(sent) \in Nat /\ Len(way) \in Nat
    BY <2>13, Cat
  <2>9. Len(u) = N
    BY <2>7, <2>8 DEF Stream
  <2>10. ASSUME NEW i \in 1..Len(u) PROVE u[i] = i
    <3>1. CASE i \in 1..Len(sent)
      <4>1. u[i] = sent[i]
        BY <2>13, <3>1, Cat
      <4> QED
        BY <2>7, <3>1, <4>1 DEF Stream
    <3>2. CASE i \notin 1..Len(sent)
      <4>1. i - Len(sent) \in 1..Len(way) /\ u[i] = way[i - Len(sent)]
        BY <2>8, <2>13, <3>2, Cat
      <4> DEFINE a == i - Len(sent)
      <4>2. a \in Nat /\ a > 0 /\ (Len(sent) + a) - 0 = i
        BY <2>8, <4>1
      <4> HIDE DEF a
      <4>3. a \in 1..Len(way) /\ u[i] = way[a]
        BY <4>1 DEF a
      <4> QED
        BY <2>7, <4>2, <4>3 DEF Stream
    <3> QED
      BY <3>1, <3>2
  <2> HIDE DEF u, N
  <2> DEFINE v == [i \in 1..N |-> i]
  <2>11. v \in Seq(Nat) /\ Len(v) = N /\ \A i \in 1..N : v[i] = i
    BY <2>1
  <2> HIDE DEF v
  <2>12. u = v
    <3>1. u \in Seq(Nat) /\ v \in Seq(Nat) /\ Len(u) = Len(v)
      BY <2>8, <2>9, <2>11
    <3>2. \A i \in 1..Len(u) : u[i] = v[i]
      BY <2>9, <2>10, <2>11
    <3> QED
      BY <3>1, <3>2, Same
  <2> QED
    BY <2>6, <2>12 DEF u, v, rest, N
<1> QED
  BY <1>1, WriterInvariance, PTL

(* Also when drains fail, and flush drains again what it had drained, each *)
(* byte reaches the sink for the first time after those before it, and     *)
(* none is lost but those a failed call had not used.                      *)
THEOREM FirstsInOrder == StdSpec => []FirstInOrder
<1>1. WriterInv => FirstInOrder
  <2> SUFFICES ASSUME WriterInv PROVE W!FirstInOrder
    BY DEF FirstInOrder
  <2>1. /\ buf \in Seq(Nat) /\ data \in Seq(Nat) /\ sent \in Seq(Nat) /\ Queue \in Seq(Nat)
        /\ next \in Nat \ {0}
    BY WriterTypes DEF WriterInv
  <2>2. Account(sent, Queue, pos, next, dropped, failed)
    BY DEF WriterInv, Accounts
  <2>3. InOrder(sent) /\ DOMAIN sent = 1..Len(sent)
    BY <2>1, <2>2 DEF Account, Follows
  <2>4. \A i, j \in DOMAIN sent :
            i < j /\ sent[j] < sent[i] => \E k \in 1..(i - 1) : sent[k] = sent[j]
    BY <2>3 DEF InOrder
  <2>5. \A x : Here(x, Queue) <=> Here(x, buf) \/ Here(x, data)
    <3>1. /\ \A i \in 1..Len(buf) : i \in 1..Len(Queue) /\ Queue[i] = buf[i]
          /\ \A i \in 1..Len(data) : Len(buf) + i \in 1..Len(Queue) /\ Queue[Len(buf) + i] = data[i]
          /\ \A i \in 1..Len(Queue) : i \notin 1..Len(buf) =>
                 i - Len(buf) \in 1..Len(data) /\ Queue[i] = data[i - Len(buf)]
      <4>1. buf \in Seq(Nat) /\ data \in Seq(Nat)
        BY <2>1
      <4> QED
        BY <4>1, Cat DEF Queue
    <3>2. ASSUME NEW x, Here(x, Queue) PROVE Here(x, buf) \/ Here(x, data)
      <4>1. PICK i \in 1..Len(Queue) : Queue[i] = x
        BY <3>2 DEF Here
      <4>2. CASE i \in 1..Len(buf)
        BY <3>1, <4>1, <4>2 DEF Here
      <4>3. CASE i \notin 1..Len(buf)
        BY <3>1, <4>1, <4>3, Zenon DEF Here
      <4> QED
        BY <4>2, <4>3
    <3>3. ASSUME NEW x, Here(x, buf) PROVE Here(x, Queue)
      BY <3>1, <3>3 DEF Here
    <3>4. ASSUME NEW x, Here(x, data) PROVE Here(x, Queue)
      BY <3>1, <3>4, Zenon DEF Here
    <3> QED
      BY <3>2, <3>3, <3>4
  <2>6. ASSUME NEW s \in Seq(Nat), NEW x PROVE x \in W!ToSet(s) <=> Here(x, s)
    BY DEF W!ToSet, Here
  <2>7. \A x \in 1..(next - 1) : Here(x, sent) \/ Here(x, buf) \/ Here(x, data) \/ x \in dropped
    BY <2>2, <2>5 DEF Account
  <2>8. ASSUME NEW x, Here(x, sent) \/ Here(x, Queue) PROVE x \in 1..(next - 1)
    <3>1. buf \in Seq(1..MaxBytes) /\ data \in Seq(1..MaxBytes) /\ sent \in Seq(1..MaxBytes)
      BY DEF WriterInv, W!TypeOK
    <3>2. ASSUME NEW s \in Seq(1..MaxBytes), Here(x, s) PROVE x \in 1..MaxBytes
      <4>1. PICK i \in 1..Len(s) : s[i] = x
        BY <3>2 DEF Here
      <4>2. \A k \in 1..Len(s) : s[k] \in 1..MaxBytes
        BY Elements, Zenon
      <4> QED
        BY <4>1, <4>2
    <3>3. x \in 1..MaxBytes
      BY <2>5, <2>8, <3>1, <3>2
    <3>4. x < next
      BY <2>2, <2>8 DEF Account, Here
    <3> QED
      BY <2>1, <3>3, <3>4
  <2>9. dropped \subseteq 1..(next - 1)
    BY <2>2 DEF Account
  <2>10. 1..(next - 1) = W!ToSet(sent) \cup W!ToSet(buf) \cup W!ToSet(data) \cup dropped
    BY <2>1, <2>5, <2>6, <2>7, <2>8, <2>9
  <2> QED
    BY <2>4, <2>10 DEF W!FirstInOrder
<1> QED
  BY <1>1, WriterInvariance, PTL

-----------------------------------------------------------------------------
(* The pool's invariant holds beside the others.                           *)
LEMMA PoolBeside == StdSpec => []Inv
<1>1. StdInit => Inv
  BY InitInv DEF StdInit
<1>2. Inv /\ [StdNext]_all => Inv'
  <2>1. [StdNext]_all => [Next]_vars
    BY DEF StdNext, all
  <2>2. Inv /\ [Next]_vars => Inv'
    BY TypesStep, ChainStep DEF Inv
  <2> QED
    BY <2>1, <2>2
<1> QED
  BY <1>1, <1>2, PTL DEF StdSpec

(* The variables of pool, arena and writer keep their types; the cursor of *)
(* flush stays within the buffer.                                          *)
THEOREM StdTypesKept == StdSpec => []StdTypeOK
<1>1. Inv /\ ArenaInv /\ WriterInv => StdTypeOK
  BY InvTypes DEF ArenaInv, WriterInv, StdTypeOK
<1> QED
  BY <1>1, PoolBeside, ArenaInvariance, WriterInvariance, PTL
=============================================================================
