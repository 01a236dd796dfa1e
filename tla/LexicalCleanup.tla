--------------------------- MODULE LexicalCleanup ---------------------------
(***************************************************************************)
(* What defer, !defer, with and rooted pointers promise a running Mesa     *)
(* function: leaving a scope, in whatever way, runs the cleanups declared  *)
(* in it, last declared first and each once, and ends the scope's roots    *)
(* and allocators; nothing else runs a cleanup.  A try that the function's *)
(* handle catches leaves the scopes: their cleanups run first, the order   *)
(* of the generated code (design/mesa_design.md:314 has the cleanup of a   *)
(* with run after the handle; see HandleBeforeCleanup in Cleanup.tla).     *)
(***************************************************************************)
EXTENDS Selection, SequencesExt

CONSTANTS CallerRoots, CallerContexts   \* what the caller has on the two stacks

VARIABLES
    open,       \* the scopes control is in, outermost first: their declarations
    ran,        \* the cleanups that have run, in order
    leaving,    \* how a scope was last left
    roots,      \* the registered GC roots, innermost last
    contexts    \* the allocators in force, the active one last

lvars == <<open, ran, leaving, roots, contexts>>

Ids(decls, kinds) ==
    LET chosen == Chosen(decls, [kind : kinds, id : Nat])
    IN [i \in DOMAIN chosen |-> chosen[i].id]

\* What a way out of a scope runs.
CleanupKinds(how) == {"defer", "with"} \cup IF how = "error" THEN {"!defer"} ELSE {}

InForce(scopes, kind) == Ids(FlattenSeq(scopes), {kind})

LInit ==
    /\ open = << <<>> >> /\ ran = <<>> /\ leaving = "end"
    /\ roots = CallerRoots /\ contexts = CallerContexts

Enter ==
    /\ IsStrictPrefix(open, open')
    /\ UNCHANGED <<ran, leaving>>

Declare ==
    /\ open # <<>> /\ Len(open') = Len(open)
    /\ Front(open') = Front(open)
    /\ IsPrefix(Last(open), Last(open'))
    /\ UNCHANGED <<ran, leaving>>

Leave ==
    LET left == SubSeq(open, Len(open') + 1, Len(open)) IN
    /\ IsStrictPrefix(open', open)
    /\ ran' = ran \o Ids(Reverse(FlattenSeq(left)), CleanupKinds(leaving'))

LNext ==
    /\ Enter \/ Declare \/ Leave
    /\ roots' = CallerRoots \o InForce(open', "gc_root")
    /\ contexts' = CallerContexts \o InForce(open', "allocctx")

LSpec == LInit /\ [][LNext]_lvars
=============================================================================
