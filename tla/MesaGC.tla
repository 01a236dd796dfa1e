------------------------------- MODULE MesaGC -------------------------------
(***************************************************************************)
(* The mark-and-sweep collector of runtime/mesa_gc_runtime.c, one step per *)
(* frame scanned, pointer marked and object swept, driven by the compiled  *)
(* program (its pushes, pops, assignments, stores and allocations).        *)
(*                                                                         *)
(* mesa_gc_mark recurses: an object is marked, then its words are visited  *)
(* in descriptor order before the caller goes on.  pending is that         *)
(* recursion's stack of pointers still to visit, in visiting order.        *)
(***************************************************************************)
EXTENDS Integers, Sequences, SequencesExt, FiniteSetsExt, HeapGraph

CONSTANTS
    Addrs, Locals, Slots, Frames, Descs, NULL, Foreign,   \* as in TracedHeap
    Sizes,          \* the payload sizes the program asks for
    Threshold       \* MESA_GC_THRESHOLD

ASSUME AddrsAssumption == NULL \notin Addrs /\ Foreign \notin Addrs
ASSUME ShapesAssumption ==
    Descs \subseteq Seq(Slots) /\ Frames \subseteq Seq(Locals) \ {<<>>}
ASSUME SizesAssumption == Sizes \subseteq Nat /\ Threshold \in Nat

VARIABLES
    heap,       \* _mesa_gc_head: the list of objects, head first
    bytes,      \* _mesa_gc_bytes
    stack,      \* _mesa_gc_stack: root frames, innermost first
    size, desc, mark, fields,    \* the header and payload at each address
    locals,     \* the variables the frames' roots point at
    fresh,      \* the pointer mesa_gc_alloc returned last, not yet stored
    pc,         \* where mesa_gc_alloc is, "run" outside it
    req,        \* the arguments of the allocation in progress
    scanned,    \* frames whose roots are marked
    pending,    \* pointers still to visit
    swept       \* objects of the list that the sweep has kept

memory == <<size, desc, mark, fields>>
progvars == <<stack, locals>>
gcvars == <<pc, req, scanned, pending, swept>>
vars == <<heap, bytes, memory, progvars, fresh, gcvars>>

-----------------------------------------------------------------------------
Words == Addrs \cup {NULL, Foreign}
Live == ToSet(heap)
Rooted == UNION {ToSet(stack[i]) : i \in DOMAIN stack}
RootWords == {locals[v] : v \in Rooted}
Offsets(a) == ToSet(desc[a])
Kids == [a \in Addrs |-> {fields[a][s] : s \in Offsets(a)} \cap Addrs]
Reach == Reachable(Addrs, RootWords \cap Addrs, Kids)
Held == {NULL, Foreign, fresh} \cup RootWords
        \cup UNION {{fields[a][s] : s \in Offsets(a)} : a \in RootWords \cap Live}

\* Mutant: only the first place is visited.
ThroughFirst(f, s) == [j \in DOMAIN s \cap {1} |-> f[s[j]]]

\* The words found at the places s lists, in order.
Through(f, s) == [j \in DOMAIN s |-> f[s[j]]]

NoRequest == [size |-> 0, desc |-> <<>>]

Init ==
    /\ heap = <<>> /\ bytes = 0 /\ stack = <<>>
    /\ size = [a \in Addrs |-> 0]
    /\ desc = [a \in Addrs |-> <<>>]
    /\ mark = [a \in Addrs |-> 0]
    /\ fields = [a \in Addrs |-> [s \in Slots |-> NULL]]
    /\ locals = [v \in Locals |-> NULL]
    /\ fresh = NULL
    /\ pc = "run" /\ req = NoRequest
    /\ scanned = 0 /\ pending = <<>> /\ swept = 0

-----------------------------------------------------------------------------
(* The compiled program.                                                   *)

\* mesa_gc_push: a frame of variables coming into scope, all set to w.
Push(frame, w) ==
    /\ pc = "run"
    /\ ToSet(frame) \cap Rooted = {}
    /\ w \in Held
    /\ stack' = <<frame>> \o stack
    /\ locals' = [v \in Locals |->
                     IF v \in ToSet(frame) THEN w ELSE locals[v]]
    /\ UNCHANGED <<heap, bytes, memory, fresh, gcvars>>

\* mesa_gc_pop, as the frame's variables go out of scope; on an empty stack it
\* does nothing.
Pop ==
    /\ pc = "run"
    /\ stack # <<>>
    /\ stack' = Tail(stack)
    /\ locals' = [v \in Locals |->
                     IF v \in ToSet(Head(stack)) THEN NULL ELSE locals[v]]
    /\ UNCHANGED <<heap, bytes, memory, fresh, gcvars>>

Assign(v, w) ==
    /\ pc = "run"
    /\ v \in Rooted
    /\ w \in Held
    /\ locals' = [locals EXCEPT ![v] = w]
    /\ UNCHANGED <<heap, bytes, memory, stack, fresh, gcvars>>

Store(v, s, w) ==
    /\ pc = "run"
    /\ v \in Rooted
    /\ locals[v] \in Live
    /\ s \in Offsets(locals[v])
    /\ w \in Held
    /\ fields' = [fields EXCEPT ![locals[v]][s] = w]
    /\ UNCHANGED <<heap, bytes, size, desc, mark, progvars, fresh, gcvars>>

-----------------------------------------------------------------------------
(* mesa_gc_alloc and mesa_gc_collect.                                      *)

Alloc(sz, d) ==
    /\ pc = "run"
    /\ req' = [size |-> sz, desc |-> d]
    /\ pc' = IF bytes + sz > Threshold THEN "mark" ELSE "malloc"
    /\ fresh' = NULL
    /\ UNCHANGED <<heap, bytes, memory, progvars, scanned, pending, swept>>

\* The next frame's roots: the values its variables have now.
ScanFrame ==
    /\ pc = "mark" /\ pending = <<>> /\ scanned < Len(stack)
    /\ pending' = Through(locals, stack[scanned + 1])
    /\ scanned' = scanned + 1
    /\ UNCHANGED <<heap, bytes, memory, progvars, fresh, pc, req, swept>>

\* mesa_gc_mark_ptr and mesa_gc_mark.
MarkPtr ==
    LET p == Head(pending) IN
    /\ pc = "mark" /\ pending # <<>>
    /\ IF p \in Live /\ mark[p] = 0
       THEN /\ mark' = [mark EXCEPT ![p] = 1]
            /\ pending' = Through(fields[p], desc[p]) \o Tail(pending)
       ELSE pending' = Tail(pending) /\ UNCHANGED mark
    /\ UNCHANGED <<heap, bytes, size, desc, fields, progvars, fresh,
                   pc, req, scanned, swept>>

\* Mutants: sweeping before the outermost frames are scanned; waiting for a
\* frame past the last.
BeginSweepEarly ==
    /\ pc = "mark" /\ pending = <<>> /\ scanned > 0
    /\ pc' = "sweep"
    /\ scanned' = 0
    /\ UNCHANGED <<heap, bytes, memory, progvars, fresh, req, pending, swept>>
BeginSweepLate ==
    /\ pc = "mark" /\ pending = <<>> /\ scanned = Len(stack) + 1
    /\ pc' = "sweep"
    /\ scanned' = 0
    /\ UNCHANGED <<heap, bytes, memory, progvars, fresh, req, pending, swept>>

BeginSweep ==
    /\ pc = "mark" /\ pending = <<>> /\ scanned = Len(stack)
    /\ pc' = "sweep"
    /\ scanned' = 0
    /\ UNCHANGED <<heap, bytes, memory, progvars, fresh, req, pending, swept>>

\* Mutants: the size is not given back; the cursor skips the next object.
SweepFreeUncounted ==
    /\ pc = "sweep" /\ swept < Len(heap)
    /\ mark[heap[swept + 1]] = 0
    /\ heap' = RemoveAt(heap, swept + 1)
    /\ UNCHANGED <<bytes, memory, progvars, fresh, gcvars>>
SweepFreeSkip ==
    LET dead == heap[swept + 1] IN
    /\ pc = "sweep" /\ swept < Len(heap)
    /\ mark[dead] = 0
    /\ heap' = RemoveAt(heap, swept + 1)
    /\ bytes' = bytes - size[dead]
    /\ swept' = swept + 1
    /\ UNCHANGED <<memory, progvars, fresh, pc, req, scanned, pending>>

SweepFree ==
    LET dead == heap[swept + 1] IN
    /\ pc = "sweep" /\ swept < Len(heap)
    /\ mark[dead] = 0
    /\ heap' = RemoveAt(heap, swept + 1)
    /\ bytes' = bytes - size[dead]
    /\ UNCHANGED <<memory, progvars, fresh, gcvars>>

\* Mutant: the mark of a survivor is left set.
SweepKeepMarked ==
    /\ pc = "sweep" /\ swept < Len(heap)
    /\ mark[heap[swept + 1]] # 0
    /\ swept' = swept + 1
    /\ UNCHANGED <<heap, bytes, memory, progvars, fresh, pc, req, scanned, pending>>

SweepKeep ==
    /\ pc = "sweep" /\ swept < Len(heap)
    /\ mark[heap[swept + 1]] # 0
    /\ mark' = [mark EXCEPT ![heap[swept + 1]] = 0]
    /\ swept' = swept + 1
    /\ UNCHANGED <<heap, bytes, size, desc, fields, progvars, fresh,
                   pc, req, scanned, pending>>

EndSweep ==
    /\ pc = "sweep" /\ swept = Len(heap)
    /\ pc' = "malloc"
    /\ swept' = 0
    /\ UNCHANGED <<heap, bytes, memory, progvars, fresh, req, scanned, pending>>

\* malloc may return any block that is not allocated, a freed one included.
Malloc(a) ==
    /\ pc = "malloc"
    /\ a \notin Live
    /\ heap' = <<a>> \o heap
    /\ bytes' = bytes + req.size
    /\ size' = [size EXCEPT ![a] = req.size]
    /\ desc' = [desc EXCEPT ![a] = req.desc]
    /\ mark' = [mark EXCEPT ![a] = 0]
    /\ fields' = [fields EXCEPT ![a] = [s \in Slots |-> NULL]]
    /\ fresh' = a
    /\ pc' = "run"
    /\ req' = NoRequest
    /\ UNCHANGED <<progvars, scanned, pending, swept>>

\* "GC: out of memory": abort().
OutOfMemory ==
    /\ pc = "malloc"
    /\ Addrs \subseteq Live
    /\ pc' = "abort"
    /\ UNCHANGED <<heap, bytes, memory, progvars, fresh, req, scanned, pending, swept>>

-----------------------------------------------------------------------------
Collector == ScanFrame \/ MarkPtr \/ BeginSweep \/ SweepFree \/ SweepKeep \/ EndSweep

Allocator == Collector \/ OutOfMemory \/ \E a \in Addrs : Malloc(a)

Next ==
    \/ \E frame \in Frames, w \in Words : Push(frame, w)
    \/ Pop
    \/ \E v \in Locals, w \in Words : Assign(v, w)
    \/ \E v \in Locals, s \in Slots, w \in Words : Store(v, s, w)
    \/ \E sz \in Sizes, d \in Descs : Alloc(sz, d)
    \/ Allocator

Spec == Init /\ [][Next]_vars

\* The program runs on one thread: once inside mesa_gc_alloc it keeps going.
FairSpec == Spec /\ WF_vars(Allocator)

-----------------------------------------------------------------------------
\* The variables have their types.
TypeOK ==
    /\ heap \in Seq(Addrs)
    /\ bytes \in Int
    /\ stack \in Seq(Frames)
    /\ size \in [Addrs -> Nat]
    /\ desc \in [Addrs -> Seq(Slots)]
    /\ mark \in [Addrs -> {0, 1}]
    /\ fields \in [Addrs -> [Slots -> Words]]
    /\ locals \in [Locals -> Words]
    /\ fresh \in Words
    /\ pc \in {"run", "mark", "sweep", "malloc", "abort"}
    /\ req \in [size : Nat, desc : Seq(Slots)]
    /\ scanned \in Nat
    /\ pending \in Seq(Words)
    /\ swept \in Nat

\* No object the program can reach is ever freed: whatever a registered root
\* leads to through descriptor words is on the collector's list, also in the
\* middle of a collection.  (mesa_gc_collect frees every unmarked object.)
ReachableAllocated == Reach \subseteq Live

\* _mesa_gc_bytes, which decides when to collect, is the sum of the sizes of
\* the objects on the list, also between two frees of a sweep.
BytesExact == bytes = MapThenSumSet(LAMBDA a : size[a], Live)

\* The list never holds an object twice, so that no sweep frees one twice.
ListDistinct == \A i, j \in DOMAIN heap : heap[i] = heap[j] => i = j

\* A collection leaves exactly the reachable objects: garbage, cycles
\* included, does not survive the sweep that ends it.
SweepExact == [][pc = "sweep" /\ pc' # "sweep" => Live' = Reach']_vars

\* mesa_gc_alloc returns or aborts: marking and sweeping terminate.
AllocReturns == pc # "run" ~> pc \in {"run", "abort"}

-----------------------------------------------------------------------------
(* The collector implements TracedHeap: the whole collection takes effect  *)
(* when the last pointer is marked, and the sweep only carries it out.     *)

Survivors == {heap[i] : i \in {j \in DOMAIN heap : j <= swept \/ mark[heap[j]] = 1}}

\* Why ReachableAllocated holds.  Outside the sweep every word on the list
\* points into the list; the traversal marks reachable objects only, and what
\* a marked object or a scanned frame points to is marked or still pending; so
\* the objects the sweep spares are the reachable ones, exactly.
Black == {a \in Live : mark[a] = 1}
Frontier == ToSet(pending)

FreshLive == IF pc = "run" THEN fresh \in Live \cup {NULL} ELSE fresh = NULL
Cursors ==
    /\ IF pc = "mark" THEN scanned <= Len(stack) ELSE scanned = 0 /\ pending = <<>>
    /\ IF pc = "sweep" THEN swept <= Len(heap) ELSE swept = 0
MarksClear ==
    /\ pc \in {"run", "malloc", "abort"} => \A a \in Live : mark[a] = 0
    /\ pc = "sweep" => \A i \in 1..swept : mark[heap[i]] = 0
ListClosed == pc # "sweep" => Closed(Live, RootWords \cap Addrs, Kids)
Traversal == pc = "mark" =>
    /\ Black \subseteq Reach /\ Frontier \cap Addrs \subseteq Reach
    /\ \A a \in Black : Kids[a] \subseteq Black \cup Frontier
    /\ \A i \in 1..scanned : \A j \in DOMAIN stack[i] :
           locals[stack[i][j]] \in Addrs => locals[stack[i][j]] \in Black \cup Frontier
SparesReach == pc = "sweep" => Survivors = Reach

IInv == /\ TypeOK /\ ListDistinct /\ FreshLive /\ Cursors /\ MarksClear
        /\ ListClosed /\ Traversal /\ SparesReach

Abstract == INSTANCE TracedHeap
                WITH live <- IF pc = "sweep" THEN Survivors ELSE Live

\* Every step of the collector is a step, or a stutter, of the promised heap.
ImplementsTracedHeap == Abstract!HSpec
=============================================================================
