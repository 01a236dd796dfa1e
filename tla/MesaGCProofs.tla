---------------------------- MODULE MesaGCProofs ----------------------------
(***************************************************************************)
(* For every heap, descriptor set and threshold: no object the program can *)
(* reach from a registered root is freed, a sweep leaves the reachable     *)
(* objects exactly, and the collector implements TracedHeap.               *)
(***************************************************************************)
EXTENDS MesaGC, DataFacts

-----------------------------------------------------------------------------
(* A closed set of nodes contains every reachable node: what a collector   *)
(* relies on when it keeps a closed set.                                   *)
LEMMA ReachableLeast ==
    ASSUME NEW nodes, NEW roots, NEW kids, NEW S \in SUBSET nodes,
           Closed(S, roots, kids)
    PROVE  Reachable(nodes, roots, kids) \subseteq S
BY DEF Reachable

(* The reachable nodes are themselves closed: a root is reachable, and so  *)
(* is whatever a reachable node points to.                                 *)
LEMMA ReachableClosed ==
    ASSUME NEW nodes, NEW roots \in SUBSET nodes,
           NEW kids \in [nodes -> SUBSET nodes]
    PROVE  Closed(Reachable(nodes, roots, kids), roots, kids)
BY DEF Reachable, Closed

-----------------------------------------------------------------------------
(* Visiting a frame's roots, or an object's descriptor, pushes as many     *)
(* words as it lists, each the one found there.                            *)
LEMMA ThroughSeq ==
    ASSUME NEW S, NEW T, NEW s \in Seq(S), NEW f \in [S -> T]
    PROVE  /\ Through(f, s) \in Seq(T)
           /\ Len(Through(f, s)) = Len(s)
           /\ \A i \in 1..Len(s) : Through(f, s)[i] = f[s[i]]
<1> DEFINE g == [i \in 1..Len(s) |-> f[s[i]]]
<1>1. DOMAIN s = 1..Len(s) /\ Len(s) \in Nat
  OBVIOUS
<1>2. g \in Seq(T) /\ Len(g) = Len(s)
  BY <1>1
<1>3. Through(f, s) = g
  BY <1>1 DEF Through
<1> QED
  BY <1>2, <1>3

(* Unlinking one object leaves the others in their order.                  *)
LEMMA RemoveStep ==
    ASSUME NEW S, NEW h \in Seq(S), NEW n \in Nat, n < Len(h)
    PROVE  /\ h[n + 1] \in S
           /\ RemoveAt(h, n + 1) \in Seq(S)
           /\ Len(RemoveAt(h, n + 1)) = Len(h) - 1
           /\ \A i \in 1..Len(h) - 1 :
                 RemoveAt(h, n + 1)[i] = h[IF i <= n THEN i ELSE i + 1]
<1> DEFINE front == SubSeq(h, 1, n)
           back == SubSeq(h, n + 2, Len(h))
<1>1. front \in Seq(S) /\ Len(front) = n /\ \A i \in 1..n : front[i] = h[i]
  OBVIOUS
<1>2. /\ back \in Seq(S) /\ Len(back) = Len(h) - n - 1
      /\ \A i \in 1..Len(h) - n - 1 : back[i] = h[n + 1 + i]
  OBVIOUS
<1>3. RemoveAt(h, n + 1) = front \o back
  <2>1. (n + 1) - 1 = n /\ (n + 1) + 1 = n + 2
    OBVIOUS
  <2> QED
    BY <2>1, Zenon DEF RemoveAt
<1>4. h[n + 1] \in S /\ Len(h) \in Nat
  OBVIOUS
<1> DEFINE r == front \o back
<1> HIDE DEF front, back
<1>5. r \in Seq(S) /\ Len(r) = Len(h) - 1
  BY <1>1, <1>2, <1>4
<1>6. ASSUME NEW i \in 1..n PROVE r[i] = h[i]
  <2>1. i \in 1..Len(front)
    BY <1>1
  <2>2. r[i] = front[i]
    BY <1>1, <1>2, <2>1
  <2> QED
    BY <1>1, <2>2
<1>7. ASSUME NEW i \in n + 1..Len(h) - 1 PROVE r[i] = h[i + 1]
  <2>1. i - n \in 1..Len(h) - n - 1 /\ n + 1 + (i - n) = i + 1
    BY <1>4
  <2>2. r[i] = back[i - n]
    BY <1>1, <1>2, <1>4
  <2>3. back[i - n] = h[n + 1 + (i - n)]
    BY <1>2, <2>1
  <2> QED
    BY <2>1, <2>2, <2>3
<1> HIDE DEF r
<1>8. ASSUME NEW i \in 1..Len(h) - 1
      PROVE  r[i] = h[IF i <= n THEN i ELSE i + 1]
  <2>1. CASE i <= n
    BY <1>6, <2>1
  <2>2. CASE ~(i <= n)
    BY <1>4, <1>7, <2>2
  <2> QED
    BY <2>1, <2>2
<1>9. RemoveAt(h, n + 1) = r
  BY <1>3 DEF r
<1> QED
  BY <1>4, <1>5, <1>8, <1>9

(* What a sequence over a set holds is in the set.                         *)
LEMMA InSeq ==
    ASSUME NEW S, NEW s \in Seq(S)
    PROVE  ToSet(s) \subseteq S
BY DEF ToSet

(* What a concatenation holds is what its parts hold.                      *)
LEMMA ConcatSet ==
    ASSUME NEW S, NEW s \in Seq(S), NEW t \in Seq(S)
    PROVE  ToSet(s \o t) = ToSet(s) \cup ToSet(t)
<1>1. /\ DOMAIN s = 1..Len(s) /\ DOMAIN t = 1..Len(t)
      /\ DOMAIN (s \o t) = 1..Len(s) + Len(t) /\ Len(s) \in Nat /\ Len(t) \in Nat
  OBVIOUS
<1>2. ASSUME NEW i \in DOMAIN (s \o t)
      PROVE  (s \o t)[i] \in ToSet(s) \cup ToSet(t)
  <2>1. CASE i <= Len(s)
    BY <1>1, <2>1 DEF ToSet
  <2>2. CASE i > Len(s)
    <3>1. i - Len(s) \in DOMAIN t /\ (s \o t)[i] = t[i - Len(s)]
      BY <1>1, <2>2
    <3> QED
      BY <3>1 DEF ToSet
  <2> QED
    BY <1>1, <2>1, <2>2
<1>3. ASSUME NEW j \in DOMAIN s PROVE s[j] \in ToSet(s \o t)
  <2>1. j \in DOMAIN (s \o t) /\ (s \o t)[j] = s[j]
    BY <1>1
  <2> QED
    BY <2>1, Zenon DEF ToSet
<1>4. ASSUME NEW j \in DOMAIN t PROVE t[j] \in ToSet(s \o t)
  <2>1. Len(s) + j \in DOMAIN (s \o t) /\ (s \o t)[Len(s) + j] = t[j]
    BY <1>1
  <2> QED
    BY <2>1, Zenon DEF ToSet
<1>5. ToSet(s \o t) \subseteq ToSet(s) \cup ToSet(t)
  BY <1>2 DEF ToSet
<1>6. ToSet(s) \subseteq ToSet(s \o t)
  BY <1>3, Zenon DEF ToSet
<1>7. ToSet(t) \subseteq ToSet(s \o t)
  BY <1>4, Zenon DEF ToSet
<1> QED
  BY <1>5, <1>6, <1>7

(* The words pushed for f and s are the ones f holds at what s lists.      *)
LEMMA ThroughSet ==
    ASSUME NEW s, NEW f
    PROVE  \A y : y \in ToSet(Through(f, s)) <=> \E x \in ToSet(s) : y = f[x]
<1>1. /\ DOMAIN Through(f, s) = DOMAIN s
      /\ \A i \in DOMAIN s : Through(f, s)[i] = f[s[i]]
  BY DEF Through
<1> TAKE y
<1>2. ASSUME y \in ToSet(Through(f, s)) PROVE \E x \in ToSet(s) : y = f[x]
  <2>1. PICK i \in DOMAIN s : y = f[s[i]]
    BY <1>1, <1>2, Zenon DEF ToSet
  <2> QED
    BY <2>1, Zenon DEF ToSet
<1>3. ASSUME NEW x \in ToSet(s), y = f[x] PROVE y \in ToSet(Through(f, s))
  <2>1. PICK i \in DOMAIN s : x = s[i]
    BY Zenon DEF ToSet
  <2> QED
    BY <1>1, <1>3, <2>1, Zenon DEF ToSet
<1> QED
  BY <1>2, <1>3

(* A nonempty sequence holds its head and what its tail holds.             *)
LEMMA HeadTailSet ==
    ASSUME NEW S, NEW s \in Seq(S), s # <<>>
    PROVE  /\ Head(s) \in S /\ Tail(s) \in Seq(S)
           /\ ToSet(s) = {Head(s)} \cup ToSet(Tail(s))
<1>1. /\ <<Head(s)>> \in Seq(S) /\ Tail(s) \in Seq(S) /\ Head(s) \in S
      /\ s = <<Head(s)>> \o Tail(s)
  OBVIOUS
<1>2. ToSet(s) = ToSet(<<Head(s)>>) \cup ToSet(Tail(s))
  BY <1>1, ConcatSet
<1>3. ToSet(<<Head(s)>>) = {Head(s)}
  BY DEF ToSet
<1> QED
  BY <1>1, <1>2, <1>3

\* The initial state has the types.
LEMMA TypeInit == Init => TypeOK
BY SizesAssumption DEF Init, TypeOK, Words, NoRequest

\* Every step of the program and of the collector keeps the types.
LEMMA TypeStep == TypeOK /\ [Next]_vars => TypeOK'
<1> SUFFICES ASSUME TypeOK, [Next]_vars PROVE TypeOK'
  OBVIOUS
<1> USE DEF TypeOK
<1>1. ASSUME NEW frame \in Frames, NEW w \in Words, Push(frame, w) PROVE TypeOK'
  BY <1>1 DEF Push, memory, gcvars
<1>2. CASE Pop
  BY <1>2 DEF Pop, memory, gcvars, Words
<1>3. ASSUME NEW v \in Locals, NEW w \in Words, Assign(v, w) PROVE TypeOK'
  BY <1>3 DEF Assign, memory, gcvars
<1>4. ASSUME NEW v \in Locals, NEW s \in Slots, NEW w \in Words, Store(v, s, w)
      PROVE  TypeOK'
  BY <1>4 DEF Store, progvars, gcvars
<1>5. ASSUME NEW sz \in Sizes, NEW d \in Descs, Alloc(sz, d) PROVE TypeOK'
  BY <1>5, SizesAssumption, ShapesAssumption DEF Alloc, memory, progvars, Words
<1>6. CASE ScanFrame
  <2>0. scanned + 1 \in 1..Len(stack)
    BY <1>6 DEF ScanFrame
  <2>1. stack[scanned + 1] \in Seq(Locals)
    BY <2>0, ShapesAssumption
  <2>2. pending' \in Seq(Words)
    BY <1>6, <2>1, ThroughSeq DEF ScanFrame
  <2>3. scanned' \in Nat
    BY <1>6 DEF ScanFrame
  <2> QED
    BY <1>6, <2>2, <2>3 DEF ScanFrame, memory, progvars
<1>7. CASE MarkPtr
  <2> DEFINE p == Head(pending)
             kids == Through(fields[p], desc[p])
  <2>1. pending # <<>> /\ Tail(pending) \in Seq(Words)
    BY <1>7 DEF MarkPtr
  <2>2. ASSUME p \in Live PROVE p \in Addrs /\ kids \in Seq(Words)
    <3>1. p \in Addrs
      BY <2>2, InSeq DEF Live
    <3>2. desc[p] \in Seq(Slots) /\ fields[p] \in [Slots -> Words]
      BY <3>1
    <3> QED
      BY <3>1, <3>2, ThroughSeq
  <2>3. (pending' = kids \o Tail(pending) /\ p \in Live) \/ pending' = Tail(pending)
    BY <1>7 DEF MarkPtr
  <2> HIDE DEF kids
  <2>5. pending' \in Seq(Words)
    <3>1. CASE p \in Live /\ pending' = kids \o Tail(pending)
      <4>1. kids \in Seq(Words)
        BY <2>2, <3>1
      <4> QED
        BY <2>1, <3>1, <4>1
    <3> QED
      BY <2>1, <2>3, <3>1
  <2>4. mark' \in [Addrs -> {0, 1}]
    BY <1>7 DEF MarkPtr
  <2> QED
    BY <1>7, <2>4, <2>5 DEF MarkPtr, progvars
<1>8. CASE BeginSweep
  BY <1>8 DEF BeginSweep, memory, progvars
<1>9. CASE SweepFree
  <2>1. heap' \in Seq(Addrs) /\ heap[swept + 1] \in Addrs
    BY <1>9, RemoveStep DEF SweepFree
  <2>2. bytes' \in Int
    <3>1. bytes' = bytes - size[heap[swept + 1]]
      BY <1>9, Zenon DEF SweepFree
    <3>2. size[heap[swept + 1]] \in Nat /\ bytes \in Int
      BY <2>1
    <3> QED
      BY <3>1, <3>2
  <2> QED
    BY <1>9, <2>1, <2>2 DEF SweepFree, memory, progvars, gcvars
<1>10. CASE SweepKeep
  BY <1>10 DEF SweepKeep, progvars
<1>11. CASE EndSweep
  BY <1>11 DEF EndSweep, memory, progvars
<1>12. ASSUME NEW a \in Addrs, Malloc(a) PROVE TypeOK'
  BY <1>12 DEF Malloc, progvars, Words, NoRequest
<1>13. CASE OutOfMemory
  BY <1>13 DEF OutOfMemory, memory, progvars
<1>14. CASE UNCHANGED vars
  BY <1>14 DEF vars, memory, progvars, gcvars
<1> QED
  BY <1>1, <1>2, <1>3, <1>4, <1>5, <1>6, <1>7, <1>8, <1>9, <1>10, <1>11, <1>12,
     <1>13, <1>14 DEF Next, Allocator, Collector

-----------------------------------------------------------------------------
(* What does not touch the roots or the words keeps reachability.          *)
LEMMA GraphStable ==
    ASSUME UNCHANGED <<desc, fields, stack, locals>>
    PROVE  Rooted' = Rooted /\ RootWords' = RootWords /\ Kids' = Kids /\ Reach' = Reach
<1>1. Rooted' = Rooted /\ Kids' = Kids
  BY DEF Rooted, Kids, Offsets
<1>2. RootWords' = RootWords
  BY <1>1 DEF RootWords
<1> QED
  BY <1>1, <1>2 DEF Reach

\* What each word points to is an object or null, and the roots are objects.
LEMMA GraphTypes ==
    ASSUME TypeOK
    PROVE  /\ Live \subseteq Addrs
           /\ Rooted \subseteq Locals
           /\ RootWords \subseteq Words
           /\ \A a \in Addrs : Offsets(a) \subseteq Slots
           /\ Kids \in [Addrs -> SUBSET Addrs]
<1>1. Live \subseteq Addrs
  BY InSeq DEF TypeOK, Live
<1>2. ASSUME NEW i \in DOMAIN stack PROVE ToSet(stack[i]) \subseteq Locals
  <2>1. stack[i] \in Seq(Locals)
    BY ShapesAssumption DEF TypeOK
  <2> QED
    BY <2>1, InSeq
<1>3. Rooted \subseteq Locals
  BY <1>2 DEF Rooted
<1>4. RootWords \subseteq Words
  BY <1>3 DEF RootWords, TypeOK
<1>5. ASSUME NEW a \in Addrs PROVE Offsets(a) \subseteq Slots
  <2>1. desc[a] \in Seq(Slots)
    BY DEF TypeOK
  <2> QED
    BY <2>1, InSeq DEF Offsets
<1>6. Kids \in [Addrs -> SUBSET Addrs]
  BY DEF Kids
<1> QED
  BY <1>1, <1>3, <1>4, <1>5, <1>6

(* The reachable objects are closed, and they are the least closed set.    *)
LEMMA ReachFacts ==
    ASSUME TypeOK
    PROVE  /\ Reach \subseteq Addrs
           /\ Closed(Reach, RootWords \cap Addrs, Kids)
           /\ \A S \in SUBSET Addrs :
                 Closed(S, RootWords \cap Addrs, Kids) => Reach \subseteq S
<1>1. Closed(Reach, RootWords \cap Addrs, Kids)
  BY GraphTypes, ReachableClosed DEF Reach
<1>2. ASSUME NEW S \in SUBSET Addrs, Closed(S, RootWords \cap Addrs, Kids)
      PROVE  Reach \subseteq S
  BY <1>2, ReachableLeast DEF Reach
<1> QED
  BY <1>1, <1>2 DEF Reach, Reachable

(* While the program runs, it can only get hold of allocated objects.      *)
LEMMA HeldLive ==
    ASSUME IInv, pc = "run"
    PROVE  Held \subseteq Live \cup {NULL, Foreign}
<1>1. TypeOK /\ Closed(Live, RootWords \cap Addrs, Kids) /\ fresh \in Live \cup {NULL}
  BY DEF IInv, ListClosed, FreshLive
<1>2. RootWords \subseteq Live \cup {NULL, Foreign}
  BY <1>1, GraphTypes DEF Closed, Words
<1>3. ASSUME NEW a \in Live, NEW s \in Offsets(a)
      PROVE  fields[a][s] \in Live \cup {NULL, Foreign}
  <2>1. a \in Addrs /\ s \in Slots /\ Kids[a] \subseteq Live
    BY <1>1, <1>3, GraphTypes DEF Closed
  <2>2. fields[a][s] \in Words
    BY <1>1, <2>1 DEF TypeOK
  <2>3. fields[a][s] \in Addrs => fields[a][s] \in Kids[a]
    BY <2>1 DEF Kids
  <2> QED
    BY <2>1, <2>2, <2>3 DEF Words
<1> QED
  BY <1>1, <1>2, <1>3 DEF Held

(* A step of the program keeps the invariant when it leaves the list       *)
(* closed.                                                                 *)
LEMMA ProgramStep ==
    ASSUME IInv, TypeOK', pc = "run", UNCHANGED <<heap, mark, fresh, gcvars>>,
           Closed(Live, (RootWords \cap Addrs)', Kids')
    PROVE  IInv'
<1>1. Live' = Live /\ pc' = "run"
  BY DEF Live, gcvars
<1>2. ListDistinct' /\ FreshLive'
  BY <1>1 DEF IInv, ListDistinct, FreshLive
<1>3. Cursors' /\ MarksClear'
  BY <1>1 DEF IInv, Cursors, MarksClear, gcvars
<1>4. ListClosed'
  BY <1>1 DEF ListClosed
<1>5. Traversal' /\ SparesReach'
  BY <1>1 DEF Traversal, SparesReach
<1> QED
  BY <1>2, <1>3, <1>4, <1>5 DEF IInv

\* gc_push_frame keeps the invariant: the new frame's words are null.
LEMMA PushStep ==
    ASSUME IInv, TypeOK', NEW frame \in Frames, NEW w \in Words, Push(frame, w)
    PROVE  IInv'
<1>1. TypeOK /\ pc = "run" /\ w \in Live \cup {NULL, Foreign}
  BY HeldLive DEF Push, IInv
<1>2. Closed(Live, RootWords \cap Addrs, Kids)
  BY <1>1 DEF IInv, ListClosed
<1>3. Kids' = Kids
  BY DEF Push, memory, Kids, Offsets
<1>4. /\ DOMAIN stack' = 1..Len(stack) + 1 /\ DOMAIN stack = 1..Len(stack)
      /\ stack'[1] = frame
      /\ \A k \in 2..Len(stack) + 1 : stack'[k] = stack[k - 1]
      /\ Len(stack) \in Nat
  BY <1>1 DEF Push, TypeOK
<1>5. ASSUME NEW v \in Rooted'
      PROVE  locals'[v] = w \/ (v \in Rooted /\ locals'[v] = locals[v])
  <2>2. PICK i \in DOMAIN stack' : v \in ToSet(stack'[i])
    BY Zenon DEF Rooted
  <2>3. CASE i = 1
    <3>1. v \in ToSet(frame)
      BY <1>4, <2>2, <2>3
    <3>2. v \in Locals
      BY <3>1, ShapesAssumption, InSeq
    <3> QED
      BY <3>1, <3>2 DEF Push
  <2>4. CASE i # 1
    <3>1. i - 1 \in DOMAIN stack /\ stack'[i] = stack[i - 1]
      BY <1>4, <2>4
    <3>2. v \in Rooted
      BY <2>2, <3>1, Zenon DEF Rooted
    <3>3. v \in Locals
      BY <1>1, <3>2, GraphTypes
    <3>4. locals'[v] = IF v \in ToSet(frame) THEN w ELSE locals[v]
      BY <3>3 DEF Push
    <3> QED
      BY <3>2, <3>4
  <2> QED
    BY <2>3, <2>4
<1>6. (RootWords \cap Addrs)' \subseteq Live
  BY <1>1, <1>2, <1>5, AddrsAssumption DEF RootWords, Closed
<1>7. Closed(Live, (RootWords \cap Addrs)', Kids')
  BY <1>2, <1>3, <1>6 DEF Closed
<1> QED
  BY <1>1, <1>7, ProgramStep DEF Push, memory

\* gc_pop_frame keeps it: fewer roots reach fewer objects.
LEMMA PopStep ==
    ASSUME IInv, TypeOK', Pop
    PROVE  IInv'
<1>1. TypeOK /\ pc = "run" /\ Closed(Live, RootWords \cap Addrs, Kids)
  BY DEF Pop, IInv, ListClosed
<1>2. Kids' = Kids
  BY DEF Pop, memory, Kids, Offsets
<1>3. /\ DOMAIN stack' = 1..Len(stack) - 1 /\ DOMAIN stack = 1..Len(stack)
      /\ \A k \in 1..Len(stack) - 1 : stack'[k] = stack[k + 1]
      /\ Len(stack) \in Nat
  BY <1>1 DEF Pop, TypeOK
<1>4. Rooted' \subseteq Rooted
  <2> SUFFICES ASSUME NEW i \in DOMAIN stack'
               PROVE  ToSet(stack'[i]) \subseteq Rooted
    BY Zenon DEF Rooted
  <2>1. i + 1 \in DOMAIN stack /\ stack'[i] = stack[i + 1]
    BY <1>3
  <2> QED
    BY <2>1, Zenon DEF Rooted
<1>5. ASSUME NEW v \in Rooted' PROVE locals'[v] \in RootWords \cup {NULL}
  BY <1>1, <1>4, GraphTypes DEF Pop, RootWords
<1>6. (RootWords \cap Addrs)' \subseteq RootWords \cap Addrs
  BY <1>5, AddrsAssumption DEF RootWords
<1>7. Closed(Live, (RootWords \cap Addrs)', Kids')
  BY <1>1, <1>2, <1>6 DEF Closed
<1> QED
  BY <1>1, <1>7, ProgramStep DEF Pop, memory

\* A store to a rooted local keeps it: what is stored was reachable.
LEMMA AssignStep ==
    ASSUME IInv, TypeOK', NEW v \in Locals, NEW w \in Words, Assign(v, w)
    PROVE  IInv'
<1>1. /\ TypeOK /\ pc = "run" /\ w \in Live \cup {NULL, Foreign}
      /\ Closed(Live, RootWords \cap Addrs, Kids)
  BY HeldLive DEF Assign, IInv, ListClosed
<1>2. Kids' = Kids /\ Rooted' = Rooted
  BY DEF Assign, memory, Kids, Offsets, Rooted
<1>3. RootWords' \subseteq RootWords \cup {w}
  BY <1>1, <1>2, GraphTypes DEF Assign, RootWords, TypeOK
<1>4. Closed(Live, (RootWords \cap Addrs)', Kids')
  BY <1>1, <1>2, <1>3, AddrsAssumption DEF Closed
<1> QED
  BY <1>1, <1>4, ProgramStep DEF Assign, memory

\* A store into an object's field keeps it, by the same argument.
LEMMA StoreStep ==
    ASSUME IInv, TypeOK', NEW v \in Locals, NEW s \in Slots, NEW w \in Words,
           Store(v, s, w)
    PROVE  IInv'
<1>1. /\ TypeOK /\ pc = "run" /\ w \in Live \cup {NULL, Foreign}
      /\ Closed(Live, RootWords \cap Addrs, Kids)
  BY HeldLive DEF Store, IInv, ListClosed
<1>2. RootWords' = RootWords
  BY DEF Store, progvars, RootWords, Rooted
<1>3. ASSUME NEW a \in Addrs PROVE Kids'[a] \subseteq (Kids[a] \cup {w}) \cap Addrs
  <2>1. Offsets(a)' = Offsets(a) /\ Offsets(a) \subseteq Slots
    BY <1>1, GraphTypes DEF Store, Offsets
  <2>2. \A t \in Slots : fields'[a][t] \in {fields[a][t], w}
    BY <1>1 DEF Store, TypeOK
  <2> QED
    BY <2>1, <2>2 DEF Kids
<1>4. \A a \in Live : Kids'[a] \subseteq Live
  BY <1>1, <1>3, GraphTypes, AddrsAssumption DEF Closed
<1>5. Closed(Live, (RootWords \cap Addrs)', Kids')
  BY <1>1, <1>2, <1>4 DEF Closed
<1> QED
  BY <1>1, <1>5, ProgramStep DEF Store

-----------------------------------------------------------------------------
\* mesa_gc_alloc, up to its call of the collector, keeps it.
LEMMA AllocStep ==
    ASSUME IInv, TypeOK', NEW sz \in Sizes, NEW d \in Descs, Alloc(sz, d)
    PROVE  IInv'
<1>1. /\ pc = "run" /\ pc' \in {"mark", "malloc"}
      /\ UNCHANGED <<heap, memory, progvars, scanned, pending, swept>>
  BY DEF Alloc
<1>2. Live' = Live /\ RootWords' = RootWords /\ Kids' = Kids
  BY <1>1, GraphStable DEF Live, memory, progvars
<1>3. ListDistinct' /\ FreshLive' /\ Cursors' /\ MarksClear'
  BY <1>1, <1>2 DEF IInv, ListDistinct, FreshLive, Cursors, MarksClear, Alloc,
                    memory, TypeOK
<1>4. ListClosed'
  BY <1>1, <1>2 DEF IInv, ListClosed
<1>5. Black' = {} /\ Frontier' = {} /\ scanned' = 0
  BY <1>1, <1>2 DEF IInv, MarksClear, Cursors, Black, Frontier, memory, ToSet
<1>6. Traversal' /\ SparesReach'
  BY <1>1, <1>5 DEF Traversal, SparesReach
<1> QED
  BY <1>3, <1>4, <1>6 DEF IInv

\* Pushing the words of a root frame for marking keeps it.
LEMMA ScanFrameStep ==
    ASSUME IInv, TypeOK', ScanFrame
    PROVE  IInv'
<1> DEFINE f == stack[scanned + 1]
<1>1. TypeOK /\ pc = "mark" /\ pc' = "mark" /\ scanned + 1 \in DOMAIN stack
  BY DEF ScanFrame, IInv, TypeOK
<1>2. /\ Live' = Live /\ Black' = Black /\ RootWords' = RootWords
      /\ Kids' = Kids /\ Reach' = Reach
  BY GraphStable DEF ScanFrame, Live, Black, memory, progvars
<1>3. ListDistinct' /\ FreshLive' /\ Cursors' /\ MarksClear' /\ ListClosed' /\ SparesReach'
  <2>1. ListDistinct' /\ FreshLive' /\ MarksClear' /\ SparesReach'
    BY <1>1, <1>2 DEF IInv, ListDistinct, FreshLive, MarksClear, SparesReach, ScanFrame
  <2>2. Cursors'
    <3>1. stack' = stack /\ scanned' = scanned + 1 /\ scanned < Len(stack)
      BY DEF ScanFrame, progvars
    <3>2. scanned \in Nat /\ Len(stack) \in Nat
      BY <1>1 DEF TypeOK
    <3>3. scanned' <= Len(stack')
      BY <3>1, <3>2
    <3> QED
      BY <1>1, <3>3 DEF Cursors, ScanFrame, IInv
  <2>3. ListClosed'
    BY <1>1, <1>2 DEF IInv, ListClosed
  <2> QED
    BY <2>1, <2>2, <2>3
<1>4. f \in Seq(Locals) /\ DOMAIN f = 1..Len(f)
  BY <1>1, ShapesAssumption DEF TypeOK
<1>5. Frontier = {} /\ Frontier' = {locals[v] : v \in ToSet(f)}
  <2>1. pending' = Through(locals, f) /\ pending = <<>>
    BY DEF ScanFrame
  <2>2. \A y : y \in ToSet(Through(locals, f)) <=> \E v \in ToSet(f) : y = locals[v]
    BY ThroughSet
  <2>3. Frontier = {}
    BY <2>1 DEF Frontier, ToSet
  <2> QED
    BY <2>1, <2>2, <2>3 DEF Frontier
<1>6. Frontier' \subseteq RootWords
  <2>1. ToSet(f) \subseteq Rooted
    BY <1>1, Zenon DEF Rooted
  <2> QED
    BY <1>5, <2>1 DEF RootWords
<1>7. Frontier' \cap Addrs \subseteq Reach
  BY <1>1, <1>6, ReachFacts DEF Closed
<1>8. ASSUME NEW i \in 1..scanned', NEW j \in DOMAIN stack[i], locals[stack[i][j]] \in Addrs
      PROVE  locals[stack[i][j]] \in Black \cup Frontier'
  <2>1. CASE i = scanned + 1
    BY <1>5, <2>1 DEF ToSet
  <2>2. CASE i # scanned + 1
    <3>1. i \in 1..scanned
      BY <1>1, <2>2 DEF ScanFrame, TypeOK
    <3>2. locals[stack[i][j]] \in Black \cup Frontier
      BY <1>1, <1>8, <3>1 DEF IInv, Traversal
    <3> QED
      BY <1>5, <3>2
  <2> QED
    BY <2>1, <2>2
<1>9. Traversal'
  BY <1>1, <1>2, <1>5, <1>7, <1>8 DEF Traversal, IInv, ScanFrame, progvars
<1> QED
  BY <1>3, <1>9 DEF IInv

\* Marking one word, and pushing what its object lists, keeps it.
LEMMA MarkPtrStep ==
    ASSUME IInv, TypeOK', MarkPtr
    PROVE  IInv'
<1> DEFINE p == Head(pending)
           rest == ToSet(Tail(pending))
<1>1. /\ TypeOK /\ pc = "mark" /\ pc' = "mark"
      /\ UNCHANGED <<heap, desc, fields, stack, locals, fresh, scanned, swept>>
  BY DEF MarkPtr, IInv, progvars
<1>2. Live' = Live /\ RootWords' = RootWords /\ Kids' = Kids /\ Reach' = Reach
  BY <1>1, GraphStable DEF Live
<1>3. ListDistinct' /\ FreshLive' /\ Cursors' /\ MarksClear' /\ ListClosed' /\ SparesReach'
  BY <1>1, <1>2 DEF IInv, ListDistinct, FreshLive, Cursors, MarksClear, ListClosed,
                    SparesReach
<1>4. Frontier = {p} \cup rest /\ p \in Words /\ Tail(pending) \in Seq(Words)
  <2>1. pending # <<>> /\ pending \in Seq(Words)
    BY <1>1 DEF MarkPtr, TypeOK
  <2> QED
    BY <2>1, HeadTailSet DEF Frontier
<1>5. Reach \subseteq Live
  BY <1>1, ReachFacts, GraphTypes DEF IInv, ListClosed
<1>6. Traversal
  BY DEF IInv
<1>7. CASE p \in Live /\ mark[p] = 0
  <2>1. p \in Addrs /\ p \in Reach
    BY <1>1, <1>4, <1>6, <1>7, GraphTypes DEF Traversal
  <2>2. /\ mark' = [mark EXCEPT ![p] = 1]
        /\ pending' = Through(fields[p], desc[p]) \o Tail(pending)
    BY <1>7 DEF MarkPtr
  <2>3. Black' = Black \cup {p}
    BY <1>1, <1>2, <1>7, <2>1, <2>2 DEF Black, TypeOK
  <2> DEFINE words == {fields[p][s] : s \in Offsets(p)}
  <2>6. Frontier' = words \cup rest
    <3>1. desc[p] \in Seq(Slots) /\ fields[p] \in [Slots -> Words]
      BY <1>1, <2>1 DEF TypeOK
    <3> HIDE DEF p
    <3>2. Through(fields[p], desc[p]) \in Seq(Words)
      BY <3>1, ThroughSeq
    <3>4. \A y : y \in ToSet(Through(fields[p], desc[p]))
                  <=> \E o \in ToSet(desc[p]) : y = fields[p][o]
      BY ThroughSet
    <3>5. ToSet(Through(fields[p], desc[p])) = words
      BY <3>4 DEF Offsets
    <3>3. Frontier' = ToSet(Through(fields[p], desc[p]) \o Tail(pending))
      BY <2>2 DEF Frontier
    <3> HIDE DEF words
    <3> QED
      BY <1>4, <3>2, <3>3, <3>5, ConcatSet
  <2> HIDE DEF words, p
  <2>7. words \cap Addrs = Kids[p]
    BY <2>1 DEF words, Kids
  <2>8. Kids[p] \subseteq Reach
    BY <1>1, <2>1, ReachFacts DEF Closed
  <2>9. Black' \subseteq Reach /\ Frontier' \cap Addrs \subseteq Reach
    BY <1>1, <1>4, <1>6, <2>1, <2>3, <2>6, <2>7, <2>8 DEF Traversal
  <2>10. Black \cup Frontier \subseteq Black' \cup Frontier'
    BY <1>4, <2>3, <2>6
  <2>11. \A a \in Black' : Kids[a] \subseteq Black' \cup Frontier'
    BY <1>1, <1>6, <2>3, <2>6, <2>7, <2>10 DEF Traversal
  <2>12. Traversal'
    BY <1>1, <1>2, <1>6, <2>9, <2>10, <2>11 DEF Traversal
  <2> QED
    BY <1>3, <2>12 DEF IInv
<1>8. CASE ~(p \in Live /\ mark[p] = 0)
  <2>1. mark' = mark /\ pending' = Tail(pending)
    BY <1>8 DEF MarkPtr
  <2>2. Black' = Black /\ Frontier' = rest
    BY <1>2, <2>1 DEF Black, Frontier
  <2>3. p \in Addrs => p \in Black
    BY <1>1, <1>4, <1>5, <1>6, <1>8 DEF Traversal, Black, TypeOK
  <2>4. (Black \cup Frontier) \cap Addrs \subseteq Black' \cup Frontier'
    BY <1>4, <2>2, <2>3
  <2>5. \A a \in Black : Kids[a] \subseteq Addrs
    BY <1>1, GraphTypes DEF Black
  <2>6. Traversal'
    BY <1>1, <1>2, <1>4, <1>6, <2>2, <2>4, <2>5 DEF Traversal
  <2> QED
    BY <1>3, <2>6 DEF IInv
<1> QED
  BY <1>7, <1>8

\* When nothing is left to mark, the marked objects are closed: the sweep may begin.
LEMMA BeginSweepStep ==
    ASSUME IInv, TypeOK', BeginSweep
    PROVE  IInv' /\ Reach' = Reach /\ Black = Reach
<1>1. /\ TypeOK /\ pc = "mark" /\ pc' = "sweep" /\ pending = <<>> /\ scanned = Len(stack)
      /\ UNCHANGED <<heap, memory, stack, locals, fresh, pending, swept>> /\ swept = 0
      /\ scanned' = 0
  BY DEF BeginSweep, IInv, Cursors, progvars
<1>2. Live' = Live /\ Reach' = Reach
  BY <1>1, GraphStable DEF Live, memory
<1>3. Frontier = {}
  BY <1>1 DEF Frontier, ToSet
<1>4. RootWords \cap Addrs \subseteq Black
  <2> SUFFICES ASSUME NEW v \in Rooted, locals[v] \in Addrs PROVE locals[v] \in Black
    BY DEF RootWords
  <2>1. PICK i \in DOMAIN stack : v \in ToSet(stack[i])
    BY Zenon DEF Rooted
  <2>2. PICK j \in DOMAIN stack[i] : v = stack[i][j]
    BY <2>1, Zenon DEF ToSet
  <2>3. i \in 1..scanned
    BY <1>1 DEF TypeOK
  <2> QED
    BY <1>1, <1>3, <2>2, <2>3 DEF IInv, Traversal
<1>5. Closed(Black, RootWords \cap Addrs, Kids)
  BY <1>1, <1>3, <1>4 DEF IInv, Traversal, Closed
<1>6. Black = Reach
  <2>1. Black \in SUBSET Addrs
    BY <1>1, GraphTypes DEF Black
  <2> QED
    BY <1>1, <1>5, <2>1, ReachFacts DEF IInv, Traversal
<1>7. Survivors' = Black
  <2>1. DOMAIN heap = 1..Len(heap) /\ Len(heap) \in Nat
    BY <1>1 DEF TypeOK
  <2> QED
    BY <1>1, <2>1 DEF Survivors, Black, Live, ToSet, memory
<1>8. ListDistinct' /\ FreshLive' /\ Cursors' /\ MarksClear' /\ ListClosed'
  <2>1. Len(heap) \in Nat
    BY <1>1 DEF TypeOK
  <2> QED
    BY <1>1, <1>2, <2>1 DEF IInv, ListDistinct, FreshLive, Cursors, MarksClear, ListClosed
<1>9. Traversal' /\ SparesReach'
  BY <1>1, <1>2, <1>6, <1>7 DEF Traversal, SparesReach
<1> QED
  BY <1>2, <1>6, <1>8, <1>9 DEF IInv

(* Freeing the object under the sweep's cursor leaves the others.          *)
LEMMA FreedList ==
    ASSUME IInv, SweepFree
    PROVE  /\ DOMAIN heap' = 1..Len(heap) - 1 /\ Len(heap') = Len(heap) - 1
           /\ \A i \in 1..Len(heap) - 1 :
                 heap'[i] = heap[IF i <= swept THEN i ELSE i + 1]
           /\ DOMAIN heap = 1..Len(heap) /\ Len(heap) \in Nat
           /\ swept \in 0..Len(heap) - 1
<1>1. heap \in Seq(Addrs) /\ swept \in Nat /\ swept < Len(heap)
      /\ heap' = RemoveAt(heap, swept + 1)
  BY DEF SweepFree, IInv, TypeOK
<1>2. /\ heap' \in Seq(Addrs) /\ Len(heap') = Len(heap) - 1
      /\ \A i \in 1..Len(heap) - 1 : heap'[i] = heap[IF i <= swept THEN i ELSE i + 1]
  BY <1>1, RemoveStep
<1> QED
  BY <1>1, <1>2

\* Freeing an unmarked object keeps it: no reachable object is unmarked.
LEMMA SweepFreeStep ==
    ASSUME IInv, TypeOK', SweepFree
    PROVE  IInv' /\ Survivors' = Survivors
<1>1. /\ TypeOK /\ pc = "sweep" /\ pc' = "sweep" /\ mark[heap[swept + 1]] = 0
      /\ UNCHANGED <<memory, progvars, fresh, gcvars>>
  BY DEF SweepFree, IInv, gcvars
<1>2. Reach' = Reach
  BY <1>1, GraphStable DEF memory, progvars
<1>3. ListDistinct'
  <2> SUFFICES ASSUME NEW i \in DOMAIN heap', NEW j \in DOMAIN heap', heap'[i] = heap'[j]
               PROVE  i = j
    BY DEF ListDistinct
  <2> DEFINE at(k) == IF k <= swept THEN k ELSE k + 1
  <2>1. at(i) \in DOMAIN heap /\ at(j) \in DOMAIN heap /\ heap[at(i)] = heap[at(j)]
    BY FreedList
  <2>2. at(i) = at(j)
    BY <2>1 DEF IInv, ListDistinct
  <2> QED
    BY <2>2, FreedList
<1>4. Cursors'
  BY <1>1, FreedList DEF IInv, Cursors, gcvars, progvars
<1>5. MarksClear'
  <2>1. ASSUME NEW i \in 1..swept PROVE heap'[i] = heap[i]
    BY FreedList
  <2> QED
    BY <1>1, <2>1 DEF IInv, MarksClear, memory, gcvars
<1>6. Survivors' \subseteq Survivors
  <2> SUFFICES ASSUME NEW i \in DOMAIN heap', i <= swept \/ mark[heap'[i]] = 1
               PROVE  heap'[i] \in Survivors
    BY <1>1 DEF Survivors, memory, gcvars
  <2>1. CASE i <= swept
    BY <2>1, FreedList DEF Survivors
  <2>2. CASE ~(i <= swept)
    <3>1. i + 1 \in DOMAIN heap /\ heap'[i] = heap[i + 1]
      BY <2>2, FreedList
    <3> QED
      BY <2>2, <3>1 DEF Survivors
  <2> QED
    BY <2>1, <2>2
<1>7. Survivors \subseteq Survivors'
  <2> SUFFICES ASSUME NEW i \in DOMAIN heap, i <= swept \/ mark[heap[i]] = 1
               PROVE  heap[i] \in Survivors'
    BY DEF Survivors
  <2>1. CASE i <= swept
    <3>1. i \in DOMAIN heap' /\ heap'[i] = heap[i]
      BY <2>1, FreedList
    <3> QED
      BY <1>1, <2>1, <3>1 DEF Survivors, gcvars
  <2>2. CASE ~(i <= swept)
    <3>1. i # swept + 1
      BY <1>1, <2>2
    <3>2. i - 1 \in DOMAIN heap' /\ heap'[i - 1] = heap[i]
      BY <2>2, <3>1, FreedList
    <3> QED
      BY <1>1, <2>2, <3>2 DEF Survivors, memory
  <2> QED
    BY <2>1, <2>2
<1>8. SparesReach' /\ Traversal' /\ ListClosed'
  BY <1>1, <1>2, <1>6, <1>7 DEF IInv, SparesReach, Traversal, ListClosed
<1>9. FreshLive'
  <2>1. fresh = NULL
    BY <1>1 DEF IInv, FreshLive
  <2> QED
    BY <1>1, <2>1 DEF FreshLive
<1> QED
  BY <1>3, <1>4, <1>5, <1>6, <1>7, <1>8, <1>9 DEF IInv

\* Clearing the mark of an object that stays keeps it.
LEMMA SweepKeepStep ==
    ASSUME IInv, TypeOK', SweepKeep
    PROVE  IInv' /\ Survivors' = Survivors
<1> DEFINE kept == heap[swept + 1]
<1>1. /\ TypeOK /\ pc = "sweep" /\ pc' = "sweep" /\ swept' = swept + 1
      /\ swept < Len(heap) /\ mark' = [mark EXCEPT ![kept] = 0]
      /\ UNCHANGED <<heap, desc, fields, stack, locals, fresh, scanned, pending>>
  BY DEF SweepKeep, IInv, progvars
<1>2. DOMAIN heap = 1..Len(heap) /\ Len(heap) \in Nat /\ swept \in Nat
  BY <1>1 DEF TypeOK
<1>3. kept \in Addrs /\ mark[kept] = 1
  BY <1>1, <1>2 DEF SweepKeep, TypeOK
<1>4. Live' = Live /\ Reach' = Reach
  BY <1>1, GraphStable DEF Live
<1>5. ASSUME NEW i \in DOMAIN heap
      PROVE  mark'[heap[i]] = IF i = swept + 1 THEN 0 ELSE mark[heap[i]]
  <2>1. heap[i] \in Addrs /\ swept + 1 \in DOMAIN heap
    BY <1>1, <1>2 DEF TypeOK
  <2>2. heap[i] = kept <=> i = swept + 1
    BY <2>1 DEF IInv, ListDistinct
  <2> QED
    BY <1>1, <2>1, <2>2 DEF TypeOK
<1>6. ListDistinct' /\ FreshLive' /\ Cursors' /\ ListClosed' /\ Traversal'
  BY <1>1, <1>2, <1>4 DEF IInv, ListDistinct, FreshLive, Cursors, ListClosed, Traversal
<1>7. MarksClear'
  BY <1>1, <1>2, <1>5 DEF IInv, MarksClear
<1>8. Survivors' = Survivors
  <2>1. ASSUME NEW i \in DOMAIN heap
        PROVE  (i <= swept' \/ mark'[heap[i]] = 1) <=> (i <= swept \/ mark[heap[i]] = 1)
    BY <1>1, <1>2, <1>3, <1>5
  <2> QED
    BY <1>1, <2>1 DEF Survivors
<1> QED
  BY <1>1, <1>4, <1>6, <1>7, <1>8 DEF IInv, SparesReach

\* The end of the sweep establishes the running part: no mark is left.
LEMMA EndSweepStep ==
    ASSUME IInv, TypeOK', EndSweep
    PROVE  IInv' /\ Survivors = Live /\ Live' = Live /\ Reach' = Reach /\ Live = Reach
<1>1. /\ TypeOK /\ pc = "sweep" /\ pc' = "malloc" /\ swept' = 0 /\ swept = Len(heap)
      /\ UNCHANGED <<heap, memory, stack, locals, fresh, scanned, pending>>
  BY DEF EndSweep, IInv, progvars
<1>2. DOMAIN heap = 1..Len(heap) /\ Len(heap) \in Nat
  BY <1>1 DEF TypeOK
<1>3. Survivors = Live
  BY <1>1, <1>2 DEF Survivors, Live, ToSet
<1>4. /\ Live' = Live /\ Reach' = Reach /\ RootWords' = RootWords /\ Kids' = Kids
      /\ Live = Reach
  BY <1>1, <1>3, GraphStable DEF Live, memory, IInv, SparesReach
<1>5. ListDistinct' /\ FreshLive' /\ Cursors' /\ Traversal' /\ SparesReach'
  BY <1>1, <1>4 DEF IInv, ListDistinct, FreshLive, Cursors, Traversal, SparesReach
<1>6. MarksClear'
  BY <1>1, <1>2, <1>4 DEF IInv, MarksClear, Live, ToSet, memory
<1>7. ListClosed'
  BY <1>1, <1>4, ReachFacts DEF ListClosed
<1> QED
  BY <1>3, <1>4, <1>5, <1>6, <1>7 DEF IInv

\* Linking the new object keeps it: no word points to it yet.
LEMMA MallocStep ==
    ASSUME IInv, TypeOK', NEW a \in Addrs, Malloc(a)
    PROVE  IInv' /\ Live' = Live \cup {a}
<1>1. /\ TypeOK /\ pc = "malloc" /\ pc' = "run" /\ a \notin Live /\ heap' = <<a>> \o heap
      /\ UNCHANGED <<stack, locals, scanned, pending, swept>>
      /\ Closed(Live, RootWords \cap Addrs, Kids)
  BY DEF Malloc, IInv, progvars, ListClosed
<1>2. Live' = Live \cup {a}
  <2>1. heap \in Seq(Addrs) /\ <<a>> \in Seq(Addrs)
    BY <1>1 DEF TypeOK
  <2>2. ToSet(<<a>>) = {a}
    BY DEF ToSet
  <2>3. ToSet(<<a>> \o heap) = ToSet(<<a>>) \cup ToSet(heap)
    BY <2>1, ConcatSet
  <2> QED
    BY <1>1, <2>2, <2>3, Zenon DEF Live
<1>3. ListDistinct'
  <2>1. /\ DOMAIN heap = 1..Len(heap) /\ DOMAIN heap' = 1..Len(heap) + 1 /\ Len(heap) \in Nat
        /\ heap'[1] = a /\ \A i \in 2..Len(heap) + 1 : heap'[i] = heap[i - 1]
    BY <1>1 DEF TypeOK
  <2>2. \A i \in DOMAIN heap : heap[i] # a
    BY <1>1 DEF Live, ToSet
  <2> SUFFICES ASSUME NEW i \in DOMAIN heap', NEW j \in DOMAIN heap', heap'[i] = heap'[j]
               PROVE  i = j
    BY DEF ListDistinct
  <2>3. CASE i = 1 \/ j = 1
    BY <2>1, <2>2, <2>3
  <2>4. CASE i # 1 /\ j # 1
    <3>1. i - 1 \in DOMAIN heap /\ j - 1 \in DOMAIN heap /\ heap[i - 1] = heap[j - 1]
      BY <2>1, <2>4
    <3>2. i - 1 = j - 1
      BY <3>1 DEF IInv, ListDistinct
    <3> QED
      BY <2>1, <3>2
  <2> QED
    BY <2>3, <2>4
<1>4. RootWords' = RootWords
  BY <1>1 DEF RootWords, Rooted
<1>5. Kids'[a] = {}
  <2>1. desc'[a] \in Seq(Slots) /\ \A s \in Slots : fields'[a][s] = NULL
    BY <1>1 DEF Malloc, TypeOK
  <2>2. Offsets(a)' \subseteq Slots
    BY <2>1, InSeq DEF Offsets
  <2> QED
    BY <2>1, <2>2, AddrsAssumption DEF Kids
<1>6. ASSUME NEW b \in Live PROVE Kids'[b] = Kids[b]
  <2>1. b \in Addrs /\ b # a
    BY <1>1, GraphTypes
  <2>2. desc'[b] = desc[b] /\ fields'[b] = fields[b]
    BY <1>1, <2>1 DEF Malloc, TypeOK
  <2> QED
    BY <2>1, <2>2 DEF Kids, Offsets
<1>7. ListClosed'
  BY <1>1, <1>2, <1>4, <1>5, <1>6 DEF ListClosed, Closed
<1>8. FreshLive' /\ Cursors' /\ Traversal' /\ SparesReach'
  BY <1>1, <1>2 DEF IInv, FreshLive, Cursors, Traversal, SparesReach, Malloc
<1>9. MarksClear'
  <2>1. mark'[a] = 0 /\ \A b \in Live : mark'[b] = 0
    BY <1>1, GraphTypes DEF Malloc, TypeOK, IInv, MarksClear
  <2> QED
    BY <1>1, <1>2, <2>1 DEF MarksClear
<1> QED
  BY <1>2, <1>3, <1>7, <1>8, <1>9 DEF IInv

\* A step that changes nothing, or only ends the program, keeps it.
LEMMA QuietStep ==
    ASSUME IInv, TypeOK', OutOfMemory \/ UNCHANGED vars
    PROVE  IInv'
<1>1. /\ UNCHANGED <<heap, memory, stack, locals, fresh, scanned, pending, swept>>
      /\ pc' = pc \/ (pc = "malloc" /\ pc' = "abort")
  BY DEF OutOfMemory, vars, gcvars, progvars, memory
<1>2. /\ Live' = Live /\ Black' = Black /\ Frontier' = Frontier /\ Survivors' = Survivors
      /\ RootWords' = RootWords /\ Kids' = Kids /\ Reach' = Reach
  BY <1>1, GraphStable DEF Live, Black, Frontier, Survivors, memory
<1>3. ListDistinct' /\ FreshLive' /\ Cursors'
  BY <1>1, <1>2 DEF IInv, ListDistinct, FreshLive, Cursors
<1>4. MarksClear' /\ ListClosed'
  BY <1>1, <1>2 DEF IInv, MarksClear, ListClosed, memory
<1>5. Traversal' /\ SparesReach'
  BY <1>1, <1>2 DEF IInv, Traversal, SparesReach
<1> QED
  BY <1>3, <1>4, <1>5 DEF IInv

-----------------------------------------------------------------------------
\* The inductive invariant holds at first.
LEMMA IInvInit == Init => IInv
<1> SUFFICES ASSUME Init PROVE IInv
  OBVIOUS
<1>1. Live = {} /\ Rooted = {}
  BY DEF Init, Live, ToSet, Rooted
<1>2. RootWords = {}
  BY <1>1 DEF RootWords
<1>3. ListClosed
  BY <1>1, <1>2 DEF ListClosed, Closed
<1>4. ListDistinct /\ FreshLive /\ Cursors /\ MarksClear /\ Traversal /\ SparesReach
  BY <1>1 DEF Init, ListDistinct, FreshLive, Cursors, MarksClear, Traversal, SparesReach
<1> QED
  BY <1>3, <1>4, TypeInit DEF IInv

\* Every step keeps the inductive invariant.
LEMMA IInvStep == IInv /\ [Next]_vars => IInv'
<1> SUFFICES ASSUME IInv, [Next]_vars PROVE IInv'
  OBVIOUS
<1>1. TypeOK'
  BY TypeStep DEF IInv
<1>2. CASE Allocator
  BY <1>1, <1>2, ScanFrameStep, MarkPtrStep, BeginSweepStep, SweepFreeStep,
     SweepKeepStep, EndSweepStep, MallocStep, QuietStep DEF Allocator, Collector
<1>3. CASE Next /\ ~Allocator
  BY <1>1, <1>3, PushStep, PopStep, AssignStep, StoreStep, AllocStep DEF Next
<1>4. CASE UNCHANGED vars
  BY <1>1, <1>4, QuietStep
<1> QED
  BY <1>2, <1>3, <1>4

\* The inductive invariant implies that what is reachable is allocated.
LEMMA IInvAllocated == IInv => ReachableAllocated
<1> SUFFICES ASSUME IInv PROVE Reach \subseteq Live
  BY DEF ReachableAllocated
<1>1. CASE pc = "sweep"
  <2>1. Survivors \subseteq Live
    BY DEF Survivors, Live, ToSet
  <2> QED
    BY <1>1, <2>1 DEF IInv, SparesReach
<1>2. CASE pc # "sweep"
  BY <1>2, ReachFacts, GraphTypes DEF IInv, ListClosed
<1> QED
  BY <1>1, <1>2

(* Every state of the collector, whatever the program does, is one the     *)
(* inductive invariant describes.                                          *)
THEOREM Invariance == Spec => []IInv
BY IInvInit, IInvStep, PTL DEF Spec

(* mesa_gc_collect never frees an object the program can reach.            *)
THEOREM NoReachableFreed == Spec => []ReachableAllocated
BY Invariance, IInvAllocated, PTL

(* The object list holds no object twice.                                  *)
THEOREM NoDoubleFree == Spec => []ListDistinct
<1>1. IInv => ListDistinct
  BY DEF IInv
<1> QED
  BY Invariance, <1>1, PTL

(* When a sweep ends the list holds the reachable objects and no other.    *)
THEOREM SweepLeavesReachable == Spec => SweepExact
<1>1. IInv /\ IInv' /\ [Next]_vars => [pc = "sweep" /\ pc' # "sweep" => Live' = Reach']_vars
  <2> SUFFICES ASSUME IInv, IInv', Next, pc = "sweep", pc' # "sweep" PROVE Live' = Reach'
    OBVIOUS
  <2>1. EndSweep
    BY DEF Next, Allocator, Collector, Push, Pop, Assign, Store, Alloc, ScanFrame,
           MarkPtr, BeginSweep, SweepFree, SweepKeep, Malloc, OutOfMemory, gcvars
  <2> QED
    BY <2>1, EndSweepStep DEF IInv
<1> QED
  BY Invariance, <1>1, PTL DEF Spec, SweepExact

(* The variables keep their types.                                         *)
THEOREM TypesKept == Spec => []TypeOK
<1>1. IInv => TypeOK
  BY DEF IInv
<1> QED
  BY Invariance, <1>1, PTL

-----------------------------------------------------------------------------
(* The bytes.  What mesa_gc_alloc adds and a sweep takes off keeps their   *)
(* sum, since the list holds each object once.                             *)

\* BytesExact, in the terms of the lemmas about sums.
BytesCounted == bytes = Total(size, Live)

(* The objects of the list are finitely many.                              *)
LEMMA LiveFinite == ASSUME TypeOK PROVE IsFiniteSet(Live)
<1> DEFINE f == [i \in 1..Len(heap) |-> heap[i]]
<1>1. heap \in Seq(Addrs) /\ DOMAIN heap = 1..Len(heap) /\ Len(heap) \in Nat
  BY DEF TypeOK
<1>2. f \in Surjection(1..Len(heap), Live)
  BY <1>1 DEF Surjection, Live, ToSet
<1>3. IsFiniteSet(1..Len(heap))
  BY <1>1, FS_Interval
<1> QED
  BY <1>2, <1>3, FS_Surjection

(* A freed object leaves the list.                                         *)
LEMMA FreedLive ==
    ASSUME IInv, SweepFree
    PROVE  heap[swept + 1] \in Live /\ Live' = Live \ {heap[swept + 1]}
<1> DEFINE dead == heap[swept + 1]
<1>1. swept + 1 \in DOMAIN heap /\ swept \in Nat
  BY FreedList
<1>2. dead \in Live
  BY <1>1 DEF Live, ToSet
<1>3. ASSUME NEW i \in DOMAIN heap, i # swept + 1 PROVE heap[i] \in Live' /\ heap[i] # dead
  <2>1. heap[i] # dead
    BY <1>1, <1>3 DEF IInv, ListDistinct
  <2> DEFINE k == IF i <= swept THEN i ELSE i - 1
  <2>2. k \in 1..Len(heap) - 1 /\ i = IF k <= swept THEN k ELSE k + 1
    BY <1>1, <1>3, FreedList
  <2> HIDE DEF k
  <2>3. k \in DOMAIN heap' /\ heap'[k] = heap[i]
    BY <2>2, FreedList
  <2> QED
    BY <2>1, <2>3 DEF Live, ToSet
<1>4. ASSUME NEW k \in DOMAIN heap' PROVE heap'[k] \in Live \ {dead}
  <2> DEFINE i == IF k <= swept THEN k ELSE k + 1
  <2>3. k \in 1..Len(heap) - 1 /\ DOMAIN heap = 1..Len(heap) /\ Len(heap) \in Nat
    BY FreedList
  <2>4. i \in DOMAIN heap /\ i # swept + 1
    BY <1>1, <2>3
  <2>1. i \in DOMAIN heap /\ i # swept + 1 /\ heap'[k] = heap[i]
    BY <2>3, <2>4, FreedList
  <2> HIDE DEF i
  <2>2. heap[i] # dead
    BY <1>3, <2>1
  <2> QED
    BY <2>1, <2>2 DEF Live, ToSet
<1>5. Live' \subseteq Live \ {dead}
  BY <1>4 DEF Live, ToSet
<1>6. Live \ {dead} \subseteq Live'
  BY <1>3 DEF Live, ToSet
<1> QED
  BY <1>2, <1>5, <1>6

(* Every step of the program and of the collector keeps the count.         *)
LEMMA BytesStep == IInv /\ BytesCounted /\ [Next]_vars => BytesCounted'
<1> SUFFICES ASSUME IInv, BytesCounted, [Next]_vars PROVE BytesCounted'
  OBVIOUS
<1>1. TypeOK /\ IsFiniteSet(Live) /\ Live \subseteq Addrs
  BY LiveFinite, GraphTypes DEF IInv
<1>2. bytes = Total(size, Live) /\ \A a \in Live : size[a] \in Int
  BY <1>1 DEF TypeOK, BytesCounted
<1>3. CASE UNCHANGED <<heap, bytes, size>>
  <2>1. Live' = Live
    BY <1>3 DEF Live
  <2> QED
    BY <1>2, <1>3, <2>1 DEF BytesCounted
<1>4. CASE SweepFree
  <2> DEFINE dead == heap[swept + 1]
             rest == Live \ {dead}
  <2>1. dead \in Live /\ Live' = rest
    BY <1>4, FreedLive
  <2>2. bytes' = bytes - size[dead] /\ size' = size
    BY <1>4 DEF SweepFree, memory
  <2>3. IsFiniteSet(rest) /\ dead \notin rest /\ rest \cup {dead} = Live
    BY <1>1, <2>1, FS_Subset
  <2> HIDE DEF dead, rest
  <2>4. \A a \in rest \cup {dead} : size[a] \in Int
    BY <1>2, <2>3
  <2>5. Total(size, rest) \in Int /\ Total(size, rest \cup {dead}) = Total(size, rest) + size[dead]
    BY <2>3, <2>4, TotalAdds
  <2>6. bytes' = Total(size, rest)
    <3>1. size[dead] \in Int /\ bytes = Total(size, rest) + size[dead]
      BY <1>2, <2>3, <2>4, <2>5
    <3> QED
      BY <2>2, <2>5, <3>1
  <2> QED
    BY <2>1, <2>2, <2>6 DEF BytesCounted
<1>5. ASSUME NEW a \in Addrs, Malloc(a) PROVE BytesCounted'
  <2>1. /\ a \notin Live /\ bytes' = bytes + req.size /\ size' = [size EXCEPT ![a] = req.size]
        /\ req.size \in Int /\ size \in [Addrs -> Nat]
    BY <1>1, <1>5 DEF Malloc, TypeOK
  <2>2. Live' = Live \cup {a}
    BY <1>1, <1>5, MallocStep, TypeStep DEF IInv
  <2>3. size'[a] = req.size /\ \A x \in Live : size'[x] = size[x]
    BY <1>1, <2>1
  <2>4. \A x \in Live \cup {a} : size'[x] \in Int
    BY <1>2, <2>1, <2>3
  <2>5. Total(size', Live) = Total(size, Live)
    BY <1>1, <2>3, TotalSame
  <2>6. Total(size', Live \cup {a}) = Total(size', Live) + size'[a]
    BY <1>1, <2>1, <2>4, TotalAdds
  <2>7. bytes' = Total(size', Live \cup {a})
    BY <1>2, <2>1, <2>3, <2>5, <2>6
  <2> QED
    BY <2>2, <2>7 DEF BytesCounted
<1>6. \/ UNCHANGED <<heap, bytes, size>>
      \/ SweepFree
      \/ \E a \in Addrs : Malloc(a)
  BY DEF Next, vars, Allocator, Collector, Push, Pop, Assign, Store, Alloc, ScanFrame,
         MarkPtr, BeginSweep, SweepKeep, EndSweep, OutOfMemory, memory
<1> QED
  BY <1>3, <1>4, <1>5, <1>6

(* _mesa_gc_bytes, which decides when mesa_gc_alloc collects, is the sum   *)
(* of the sizes of the objects on the list, also between two frees of a    *)
(* sweep: for every heap and sizes.                                        *)
THEOREM BytesAreExact == Spec => []BytesExact
<1>1. Init => BytesCounted
  <2> SUFFICES ASSUME Init PROVE BytesCounted
    OBVIOUS
  <2>1. Live = {} /\ bytes = 0
    BY DEF Init, Live, ToSet
  <2> QED
    BY <2>1, TotalNone DEF BytesCounted
<1>2. BytesCounted => BytesExact
  BY Zenon DEF BytesCounted, BytesExact, Total
<1> QED
  BY <1>1, <1>2, BytesStep, Invariance, PTL DEF Spec

-----------------------------------------------------------------------------
(* The refinement: each collector step is a step of TracedHeap or none.    *)

\* Detailed and abstract heap have the same reachable objects.
LEMMA SameGraph ==
    /\ Abstract!Rooted = Rooted
    /\ Abstract!RootWords = RootWords
    /\ Abstract!Kids = Kids
    /\ Abstract!Reach = Reach
    /\ \A a : Abstract!Offsets(a) = Offsets(a)
<1>1. Abstract!Rooted = Rooted
  BY DEF Abstract!Rooted, Rooted, Abstract!ToSet, ToSet
<1>2. Abstract!Kids = Kids
  BY DEF Abstract!Kids, Kids, Abstract!Offsets, Offsets, Abstract!ToSet, ToSet
<1>3. Abstract!RootWords = RootWords
  BY <1>1 DEF Abstract!RootWords, RootWords
<1>4. \A a : Abstract!Offsets(a) = Offsets(a)
  BY DEF Abstract!Offsets, Offsets, Abstract!ToSet, ToSet
<1> QED
  BY <1>1, <1>2, <1>3, <1>4 DEF Abstract!Reach, Reach, Abstract!Reachable, Reachable,
                                Abstract!Closed, Closed

\* What the program can get hold of is the same while it runs.
LEMMA SameHeld == pc = "run" => Abstract!Held = Held
<1> SUFFICES ASSUME pc = "run" PROVE Abstract!Held = Held
  OBVIOUS
<1>1. Abstract!RootWords = RootWords
  BY SameGraph
<1> QED
  BY <1>1 DEF Abstract!Held, Held, Abstract!Offsets, Offsets, Abstract!ToSet, ToSet

\* The detailed initial state is an abstract initial state.
LEMMA AbstractInit == Init => Abstract!HInit
BY DEF Init, Abstract!HInit, Live, ToSet

\* The two instances of ToSet agree.
LEMMA SameToSet == \A x : Abstract!ToSet(x) = ToSet(x)
BY DEF Abstract!ToSet, ToSet

\* A held object stays allocated through a step that keeps the lists.
LEMMA LiveKept ==
    ASSUME pc = "run", UNCHANGED <<heap, pc>>
    PROVE  Live' = Live /\ pc' # "sweep"
BY DEF Live

\* gc_push_frame is the abstract Push.
LEMMA PushMaps ==
    ASSUME NEW frame, NEW w, Push(frame, w)
    PROVE  Abstract!Push(frame, w)
BY SameToSet, LiveKept, SameGraph, SameHeld DEF Push, Abstract!Push, memory, gcvars

\* gc_pop_frame is the abstract Pop.
LEMMA PopMaps == Pop => Abstract!Pop
BY SameToSet, LiveKept DEF Pop, Abstract!Pop, memory, gcvars

\* A store to a rooted local is the abstract one.
LEMMA AssignMaps ==
    ASSUME NEW v, NEW w, Assign(v, w)
    PROVE  Abstract!Assign(v, w)
BY LiveKept, SameGraph, SameHeld DEF Assign, Abstract!Assign, memory, gcvars

\* A store to a field is the abstract one.
LEMMA StoreMaps ==
    ASSUME NEW v, NEW s, NEW w, Store(v, s, w)
    PROVE  Abstract!Store(v, s, w)
BY LiveKept, SameGraph, SameHeld DEF Store, Abstract!Store, progvars, gcvars

\* The descriptor mesa_gc_alloc was called with is kept until malloc returns.
Requested == pc \in {"mark", "sweep", "malloc"} => req.desc \in Descs

\* The shape asked for is recorded while an allocation is on its way.
LEMMA RequestedStep == Requested /\ [Next]_vars => Requested'
<1> SUFFICES ASSUME Requested, [Next]_vars PROVE Requested'
  OBVIOUS
<1> USE DEF Requested
<1>1. ASSUME NEW sz \in Sizes, NEW d \in Descs, Alloc(sz, d) PROVE Requested'
  BY <1>1 DEF Alloc
<1>2. CASE ScanFrame \/ MarkPtr \/ BeginSweep
  BY <1>2 DEF ScanFrame, MarkPtr, BeginSweep
<1>3. CASE SweepFree \/ SweepKeep \/ EndSweep \/ OutOfMemory
  BY <1>3 DEF SweepFree, SweepKeep, EndSweep, OutOfMemory, gcvars
<1>4. ASSUME NEW a \in Addrs, Malloc(a) PROVE Requested'
  BY <1>4 DEF Malloc
<1>5. ASSUME gcvars' = gcvars PROVE Requested'
  BY <1>5 DEF gcvars
<1> QED
  BY <1>1, <1>2, <1>3, <1>4, <1>5
     DEF Next, Allocator, Collector, Push, Pop, Assign, Store, vars

\* Every step is a step of the abstract heap, or leaves it as it is.
LEMMA AbstractStep ==
    IInv /\ IInv' /\ Requested /\ [Next]_vars => [Abstract!HNext]_(Abstract!hvars)
<1> SUFFICES ASSUME IInv, IInv', Requested, [Next]_vars
             PROVE  Abstract!HNext \/ UNCHANGED Abstract!hvars
  OBVIOUS
<1> USE DEF Abstract!HNext, Abstract!hvars
<1>1. ASSUME NEW sz \in Sizes, NEW d \in Descs, Alloc(sz, d) PROVE Abstract!Request
  BY <1>1 DEF Alloc, Abstract!Request, Live, memory, progvars
<1>2. ASSUME ScanFrame \/ MarkPtr \/ OutOfMemory \/ UNCHANGED vars
      PROVE  UNCHANGED Abstract!hvars
  BY <1>2 DEF ScanFrame, MarkPtr, OutOfMemory, vars, Live, Survivors, memory, progvars, gcvars
<1>3. ASSUME BeginSweep PROVE Abstract!Collect
  <2>1. Survivors' = Reach /\ pc = "mark" /\ pc' = "sweep"
    BY <1>3, BeginSweepStep DEF BeginSweep, IInv, SparesReach
  <2> QED
    BY <1>3, <2>1, SameGraph DEF BeginSweep, Abstract!Collect, memory, progvars
<1>4. ASSUME SweepFree \/ SweepKeep PROVE UNCHANGED Abstract!hvars
  <2>1. Survivors' = Survivors
    BY <1>4, SweepFreeStep, SweepKeepStep DEF IInv
  <2> QED
    BY <1>4, <2>1 DEF SweepFree, SweepKeep, memory, progvars, gcvars
<1>5. ASSUME EndSweep PROVE UNCHANGED Abstract!hvars
  BY <1>5, EndSweepStep DEF EndSweep, IInv, memory, progvars
<1>6. ASSUME NEW a \in Addrs, Malloc(a) PROVE Abstract!New(a, req.desc)
  BY <1>6, MallocStep DEF Malloc, Abstract!New, IInv, progvars
<1>7. ASSUME NEW a \in Addrs, Malloc(a) PROVE Abstract!HNext
  <2>1. req.desc \in Descs
    BY <1>7 DEF Malloc, Requested
  <2> QED
    BY <1>6, <1>7, <2>1
<1>8. Words = Abstract!Words
  BY DEF Words, Abstract!Words
<1>9. CASE Allocator
  BY <1>2, <1>3, <1>4, <1>5, <1>7, <1>9 DEF Allocator, Collector
<1>10. ASSUME NEW frame \in Frames, NEW w \in Words, Push(frame, w) PROVE Abstract!HNext
  <2>1. Abstract!Push(frame, w)
    BY <1>10, PushMaps
  <2> QED
    BY <1>8, <2>1
<1>11. CASE Pop
  BY <1>11, PopMaps
<1>12. ASSUME NEW v \in Locals, NEW w \in Words, Assign(v, w) PROVE Abstract!HNext
  BY <1>8, <1>12, AssignMaps
<1>13. ASSUME NEW v \in Locals, NEW s \in Slots, NEW w \in Words, Store(v, s, w)
       PROVE  Abstract!HNext
  BY <1>8, <1>13, StoreMaps
<1>14. ASSUME NEW sz \in Sizes, NEW d \in Descs, Alloc(sz, d) PROVE Abstract!HNext
  BY <1>1, <1>14
<1> QED
  BY <1>2, <1>9, <1>10, <1>11, <1>12, <1>13, <1>14 DEF Next

(* The collector, marking and sweeping one object at a time, implements    *)
(* the heap whose collections happen in one step.                          *)
THEOREM Refinement == Spec => ImplementsTracedHeap
<1>1. Init => Requested
  BY DEF Init, Requested
<1> QED
  BY <1>1, AbstractInit, AbstractStep, RequestedStep, Invariance, PTL
     DEF Spec, ImplementsTracedHeap, Abstract!HSpec
=============================================================================
