----------------------------- MODULE TracedHeap -----------------------------
(***************************************************************************)
(* What the collected heap promises the compiled program: an object stays  *)
(* allocated, with its words, as long as the program can reach it from a   *)
(* registered root, and a collection removes exactly the others, in one    *)
(* step.  MesaGC implements it.                                            *)
(***************************************************************************)
EXTENDS Sequences, SequencesExt, HeapGraph

CONSTANTS
    Addrs,      \* payload addresses malloc can hand out
    Locals,     \* pointer variables of the program's activation records
    Slots,      \* word offsets inside an object
    Frames,     \* the groups of variables registered by one mesa_gc_push
    Descs,      \* GC descriptors: the sequences of offsets that hold pointers
    NULL,       \* the null pointer
    Foreign     \* a pointer the collector does not own (static, arena, interior)

Words == Addrs \cup {NULL, Foreign}

VARIABLES
    live,       \* the objects that are allocated
    fields,     \* the words stored at each address
    desc,       \* the descriptor each object was allocated with
    locals,     \* the value of each pointer variable
    stack,      \* the root frames, innermost first, each a sequence of Locals
    fresh       \* the pointer the last allocation returned, not yet stored

hvars == <<live, fields, desc, locals, stack, fresh>>

Rooted == UNION {ToSet(stack[i]) : i \in DOMAIN stack}
RootWords == {locals[v] : v \in Rooted}
Offsets(a) == ToSet(desc[a])
Kids == [a \in Addrs |-> {fields[a][s] : s \in Offsets(a)} \cap Addrs]
Reach == Reachable(Addrs, RootWords \cap Addrs, Kids)

\* The words the program can get hold of in one step.
Held == {NULL, Foreign, fresh} \cup RootWords
        \cup UNION {{fields[a][s] : s \in Offsets(a)} : a \in RootWords \cap live}

-----------------------------------------------------------------------------
HInit ==
    /\ live = {}
    /\ fields = [a \in Addrs |-> [s \in Slots |-> NULL]]
    /\ desc = [a \in Addrs |-> <<>>]
    /\ locals = [v \in Locals |-> NULL]
    /\ stack = <<>>
    /\ fresh = NULL

Push(frame, w) ==
    /\ ToSet(frame) \cap Rooted = {}
    /\ w \in Held
    /\ stack' = <<frame>> \o stack
    /\ locals' = [v \in Locals |->
                     IF v \in ToSet(frame) THEN w ELSE locals[v]]
    /\ UNCHANGED <<live, fields, desc, fresh>>

Pop ==
    /\ stack # <<>>
    /\ stack' = Tail(stack)
    /\ locals' = [v \in Locals |->
                     IF v \in ToSet(Head(stack)) THEN NULL ELSE locals[v]]
    /\ UNCHANGED <<live, fields, desc, fresh>>

Assign(v, w) ==
    /\ v \in Rooted
    /\ w \in Held
    /\ locals' = [locals EXCEPT ![v] = w]
    /\ UNCHANGED <<live, fields, desc, stack, fresh>>

Store(v, s, w) ==
    /\ v \in Rooted
    /\ locals[v] \in live
    /\ s \in Offsets(locals[v])
    /\ w \in Held
    /\ fields' = [fields EXCEPT ![locals[v]][s] = w]
    /\ UNCHANGED <<live, desc, locals, stack, fresh>>

\* A request drops the pointer of the previous one.
Request ==
    /\ fresh' = NULL
    /\ UNCHANGED <<live, fields, desc, locals, stack>>

Collect ==
    /\ live' = Reach
    /\ UNCHANGED <<fields, desc, locals, stack, fresh>>

New(a, d) ==
    /\ a \notin live
    /\ live' = live \cup {a}
    /\ fields' = [fields EXCEPT ![a] = [s \in Slots |-> NULL]]
    /\ desc' = [desc EXCEPT ![a] = d]
    /\ fresh' = a
    /\ UNCHANGED <<locals, stack>>

HNext ==
    \/ \E frame \in Frames, w \in Words : Push(frame, w)
    \/ Pop
    \/ \E v \in Locals, w \in Words : Assign(v, w)
    \/ \E v \in Locals, s \in Slots, w \in Words : Store(v, s, w)
    \/ Request
    \/ Collect
    \/ \E a \in Addrs, d \in Descs : New(a, d)

HSpec == HInit /\ [][HNext]_hvars
=============================================================================
