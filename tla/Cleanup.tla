------------------------------ MODULE Cleanup -------------------------------
(***************************************************************************)
(* The cleanup code src/ccodegen.py generates for one function, along one  *)
(* execution of it.  A step is a statement the function reaches: scopes is *)
(* the place in the program, frames the compiler's list of cleanups at     *)
(* that place, and an exit runs the code emitted for it there.  After a    *)
(* jump the compiler still goes through the unreachable rest of the scopes *)
(* the jump leaves (Close).                                                *)
(*                                                                         *)
(* Every program nested at most MaxScopes deep with at most MaxDecls       *)
(* declarations on the path is covered, the places being chosen as the     *)
(* execution goes on; a path that has run more cleanups than it can        *)
(* declare enters nothing more.  A continue, and the next iteration of a   *)
(* loop, leave the loop's scope as a break does: entering it again is      *)
(* another Enter.  The body of a defer runs to its end, and there is no    *)
(* try in a closure.  features is a choice among programs: which of the    *)
(* constructs named in FeatureSets this one uses.                          *)
(***************************************************************************)
EXTENDS Selection, SequencesExt, FiniteSetsExt

CONSTANTS
    MaxScopes, MaxDecls,    \* bounds of the program and of the path
    FeatureSets,            \* the sets of constructs a program may use
    ContextCapacity,        \* the size of _mesa_alloc_stack, 256
    CallerRoots, CallerContexts

ASSUME BoundsAssumption == MaxScopes \in Nat /\ MaxDecls \in Nat
ASSUME FeaturesAssumption ==
    FeatureSets \subseteq SUBSET {"withHandle", "dynAllocator", "breakInMatch", "closure"}
ASSUME CapacityAssumption ==
    ContextCapacity \in Nat /\ Len(CallerContexts) <= ContextCapacity
ASSUME CallerAssumption == CallerRoots \in Seq(Int) /\ CallerContexts \in Seq(Int)

VARIABLES
    scopes,     \* the scopes around the current place, outermost first
    live,       \* control is in the first live of them; less than all: dead code
    frames,     \* _cleanup_frames at the current place
    status,     \* of the function: run, error (on its way to the fn handle),
                \* handler, done or abort
    gc,         \* the runtime's root frames, innermost last
    ctx,        \* _mesa_alloc_stack
    ran,        \* the cleanup calls executed, in order
    leaving,    \* how control last left a scope: end, break, return or error
    fnHandle,   \* the function has a handle block
    features,   \* the constructs the program uses
    next        \* the next declaration

runtime == <<gc, ctx, ran, leaving>>
program == <<fnHandle, features>>
vars == <<scopes, live, frames, status, runtime, program, next>>

-----------------------------------------------------------------------------
Scope(kind) == [kind |-> kind, decls |-> <<>>, handle |-> FALSE, state |-> "open"]
Decl(kind) == [kind |-> kind, id |-> next]

\* Control is in an open block and the function has not been left.
Here ==
    /\ status \in {"run", "handler"}
    /\ scopes # <<>> /\ live = Len(scopes)
    /\ Last(scopes).kind # "with"

LoopDepthAt(n) == Cardinality({i \in 1..n : scopes[i].kind = "loop"})
LoopDepth == LoopDepthAt(Len(scopes))
Closures == {i \in DOMAIN scopes : scopes[i].kind = "closure"}

\* A frame of a block; the frames of a with have no block_depth.
BlockFrame(d) == [decl |-> d, loop |-> LoopDepth, block |-> Len(scopes)]
WithFrame(d) == [decl |-> d, loop |-> LoopDepth, block |-> 0]
Decls(fs) == [i \in DOMAIN fs |-> fs[i].decl]

Pops(s, n) == SubSeq(s, 1, Len(s) - n)
OfKinds(ds, kinds) == Chosen(ds, [kind : kinds, id : Nat])
Count(ds, kind) == Len(OfKinds(ds, {kind}))

\* Executing the calls emitted for a list of cleanups, in the order given.
Execute(ds, how) ==
    LET runs == OfKinds(ds, {"defer", "with"} \cup IF how = "error" THEN {"!defer"} ELSE {})
    IN /\ ran' = ran \o [i \in DOMAIN runs |-> runs[i].id]
       /\ gc' = Pops(gc, Count(ds, "gc_root"))
       /\ ctx' = Pops(ctx, Count(ds, "allocctx"))
       /\ leaving' = how

\* Mutant: emitted in the order of declaration.
CleanupsForExitForward(minLoop, excluded) ==
    Decls(Chosen(frames, {f \in Range(frames) : f.loop >= minLoop /\ f.decl # excluded}))

\* Mutant: the frames at the jump's own depth are left out.
CleanupsForExitDeeper(minLoop, excluded) ==
    Decls(Reverse(Chosen(frames, {f \in Range(frames) : f.loop > minLoop /\ f.decl # excluded})))

\* The cleanups an exit emits, except those of one frame.
CleanupsForExit(minLoop, excluded) ==
    Decls(Reverse(Chosen(frames, {f \in Range(frames) : f.loop >= minLoop /\ f.decl # excluded})))

\* What no frame declares.
NoFrame == [kind |-> "none", id |-> 0]

FallthroughCleanups(n) == Decls(Reverse(Chosen(frames, {f \in Range(frames) : f.block = n})))

\* Mutant: only defers are removed.
PrunedDefers(n) ==
    Chosen(frames, {f \in Range(frames) : f.block # n \/ f.decl.kind = "gc_root"})

Pruned(n) == Chosen(frames, {f \in Range(frames) : f.block # n})

Init ==
    /\ scopes = <<Scope("block")>> /\ live = 1
    /\ frames = <<>>
    /\ status = "run"
    /\ gc = CallerRoots /\ ctx = CallerContexts
    /\ ran = <<>> /\ leaving = "end"
    /\ fnHandle \in BOOLEAN /\ features \in FeatureSets
    /\ next = 1

-----------------------------------------------------------------------------
(* Entering scopes and declaring.                                          *)

\* The body of an if, a bare block, a loop, the arm of a match on a union, an
\* error, an integer or a Boolean (a C switch), or a closure that is called.
Enter(kind) ==
    /\ Here
    /\ Len(scopes) < MaxScopes /\ Len(ran) <= MaxDecls
    /\ kind = "closure" => "closure" \in features
    /\ scopes' = Append(scopes, Scope(kind))
    /\ live' = live + 1
    /\ UNCHANGED <<frames, status, runtime, program, next>>

\* defer and !defer statements, and lets (parameters) of a pointer type.
Declare(kind) ==
    /\ Here
    /\ next <= MaxDecls
    /\ scopes' = [scopes EXCEPT ![Len(scopes)].decls = Append(@, Decl(kind))]
    /\ frames' = Append(frames, BlockFrame(Decl(kind)))
    /\ gc' = IF kind = "gc_root" THEN Append(gc, next) ELSE gc
    /\ next' = next + 1
    /\ UNCHANGED <<live, status, ctx, ran, leaving, program>>

\* A with over a plain resource, an allocator struct or an `any Allocator`;
\* only the struct has a helper to push.
With(alloc, cleanup, handle) ==
    LET ds == (IF alloc = "none" THEN <<>> ELSE <<Decl("allocctx")>>)
              \o (IF cleanup THEN <<Decl("with")>> ELSE <<>>)
    IN
    /\ Here
    /\ Len(scopes) + 2 <= MaxScopes /\ next <= MaxDecls
    /\ alloc = "dyn" => "dynAllocator" \in features /\ ~cleanup
    /\ handle => "withHandle" \in features
    /\ next' = next + 1
    /\ UNCHANGED <<gc, ran, leaving, program>>
    /\ IF alloc = "struct" /\ Len(ctx) >= ContextCapacity
       THEN status' = "abort" /\ UNCHANGED <<scopes, live, frames, ctx>>
       ELSE /\ ctx' = IF alloc = "struct" THEN Append(ctx, next) ELSE ctx
            /\ frames' = frames \o [i \in DOMAIN ds |-> WithFrame(ds[i])]
            /\ scopes' = scopes \o
                   <<[kind |-> "with", decls |-> ds, handle |-> handle, state |-> "open"],
                     Scope("block")>>
            /\ live' = live + 2
            /\ UNCHANGED status

-----------------------------------------------------------------------------
(* Leaving scopes.                                                         *)

\* Mutant: the place is not left.
FallthroughStay ==
    LET n == Len(scopes) IN
    /\ Here
    /\ Execute(FallthroughCleanups(n), "end")
    /\ frames' = Pruned(n)
    /\ scopes' = Front(scopes)
    /\ status' = IF n = 1 THEN "done" ELSE status
    /\ UNCHANGED <<live, program, next>>

\* The end of a block.
Fallthrough ==
    LET n == Len(scopes) IN
    /\ Here
    /\ Execute(FallthroughCleanups(n), "end")
    /\ frames' = Pruned(n)
    /\ scopes' = Front(scopes)
    /\ live' = n - 1
    /\ status' = IF n = 1 THEN "done" ELSE status
    /\ UNCHANGED <<program, next>>

\* The end of a with, of its body or of its handler: the success path of a
\* with that has a handler but no cleanup jumps to done, past the pop.
EndWith ==
    LET w == Last(scopes)
        toDone == w.handle /\ w.state = "open" /\ Count(w.decls, "with") = 0
    IN
    /\ scopes # <<>> /\ live = Len(scopes)
    /\ w.kind = "with" /\ w.state \in {"open", "handler"}
    /\ Execute(IF toDone THEN <<>> ELSE Reverse(w.decls), "end")
    /\ frames' = Pops(frames, Len(w.decls))
    /\ scopes' = Front(scopes)
    /\ live' = live - 1
    /\ UNCHANGED <<status, program, next>>

\* The rest of a scope that a jump has left, which is never executed.
Close ==
    LET n == Len(scopes) IN
    /\ live < n
    /\ frames' = IF scopes[n].kind = "with"
                 THEN Pops(frames, Len(scopes[n].decls)) ELSE Pruned(n)
    /\ scopes' = Front(scopes)
    /\ UNCHANGED <<live, status, runtime, program, next>>

\* break and continue, out of the loop that is the ith scope.  Without a label
\* a break leaves the innermost C loop or switch, and a match is a switch.
Break(i) ==
    LET arms == {j \in DOMAIN scopes : j > i /\ scopes[j].kind = "match"}
        labelled == \E j \in DOMAIN scopes : j > i /\ scopes[j].kind = "loop"
    IN
    /\ Here
    /\ scopes[i].kind = "loop"
    /\ \A c \in Closures : c < i
    /\ Execute(CleanupsForExit(LoopDepthAt(i), NoFrame), "break")
    /\ live' = IF arms # {} /\ ~labelled /\ "breakInMatch" \in features
               THEN Max(arms) - 1 ELSE i - 1
    /\ UNCHANGED <<scopes, frames, status, program, next>>

\* A return with a value or an error, out of the function or of a closure.
Return(how) ==
    /\ Here
    /\ Execute(CleanupsForExit(0, NoFrame), how)
    /\ IF Closures = {} THEN live' = 0 /\ status' = "done"
       ELSE live' = Max(Closures) - 1 /\ UNCHANGED status
    /\ UNCHANGED <<scopes, frames, program, next>>

\* The withs whose handle a try jumps to: _try_targets.
TryTargets == {i \in DOMAIN scopes : scopes[i].handle /\ scopes[i].state = "open"}

\* A try that fails: to the innermost handle, the function's handle, or out.
TryToWith ==
    LET k == Max(TryTargets) IN
    /\ Here /\ Closures = {}
    /\ TryTargets # {}
    /\ Execute(CleanupsForExit(0, IF Count(scopes[k].decls, "with") = 0 THEN NoFrame
                                  ELSE Last(scopes[k].decls)), "error")
    /\ scopes' = [scopes EXCEPT ![k].state = "error"]
    /\ live' = k
    /\ UNCHANGED <<frames, status, program, next>>

TryToFn ==
    /\ Here /\ Closures = {}
    /\ TryTargets = {}
    /\ Execute(CleanupsForExit(0, NoFrame), "error")
    /\ live' = 0
    /\ status' = IF fnHandle THEN "error" ELSE "done"
    /\ UNCHANGED <<scopes, frames, program, next>>

\* The label of a handle, once the code before it is closed.
WithHandler ==
    /\ scopes # <<>> /\ live = Len(scopes)
    /\ Last(scopes).state = "error"
    /\ scopes' = Append([scopes EXCEPT ![live].state = "handler"], Scope("block"))
    /\ live' = live + 1
    /\ UNCHANGED <<frames, status, runtime, program, next>>

FnHandler ==
    /\ status = "error" /\ scopes = <<>>
    /\ scopes' = <<Scope("block")>>
    /\ live' = 1
    /\ status' = "handler"
    /\ UNCHANGED <<frames, runtime, program, next>>

-----------------------------------------------------------------------------
Next ==
    \/ \E kind \in {"block", "loop", "match", "closure"} : Enter(kind)
    \/ \E kind \in {"defer", "!defer", "gc_root"} : Declare(kind)
    \/ \E alloc \in {"none", "struct", "dyn"}, cleanup, handle \in BOOLEAN :
           With(alloc, cleanup, handle)
    \/ Fallthrough \/ EndWith \/ Close
    \/ \E i \in DOMAIN scopes : Break(i)
    \/ \E how \in {"return", "error"} : Return(how)
    \/ TryToWith \/ TryToFn \/ WithHandler \/ FnHandler

Spec == Init /\ [][Next]_vars

-----------------------------------------------------------------------------
DeclKinds == {"defer", "!defer", "gc_root", "allocctx", "with"}
AllDecls == [kind : DeclKinds, id : 1..MaxDecls]

\* The variables have their types.
TypeOK ==
    /\ scopes \in Seq([kind : {"block", "loop", "match", "closure", "with"},
                       decls : Seq(AllDecls), handle : BOOLEAN,
                       state : {"open", "error", "handler"}])
    /\ live \in 0..Len(scopes)
    /\ frames \in Seq([decl : AllDecls, loop : Nat, block : Nat])
    /\ status \in {"run", "error", "handler", "done", "abort"}
    /\ gc \in Seq(Int) /\ ctx \in Seq(Int) /\ ran \in Seq(1..MaxDecls)
    /\ leaving \in {"end", "break", "return", "error"}
    /\ fnHandle \in BOOLEAN /\ features \in FeatureSets
    /\ next \in 1..(MaxDecls + 1)

\* At every place of the program the compiler's list of cleanups is exactly
\* what the enclosing scopes have declared, in order: no block's entries
\* survive it and none is lost with another's.
FramesOfScopes ==
    status # "abort" => Decls(frames) = FlattenSeq([i \in DOMAIN scopes |-> scopes[i].decls])

\* A cleanup runs at most once (_emit_cleanups_for_exit emits every active
\* cleanup on an exit, also those of scopes the exit does not leave).
CleanupOnce == \A i, j \in DOMAIN ran : ran[i] = ran[j] => i = j

\* When the function's handle catches a try in a with, the cleanup of the with
\* is still to come: design/mesa_design.md:314, "cleanup-bearing `with` blocks
\* run their cleanup after the handle finishes", and :330.  (_emit_try_expr
\* emits the cleanups before the goto to the handle.)
HandleBeforeCleanup ==
    status = "error" =>
        \A i \in DOMAIN scopes : \A d \in Range(scopes[i].decls) :
            d.kind = "with" => d.id \notin Range(ran)

\* Once the function has returned, the allocator its caller had made active is
\* active again.  It is not after one of the constructs of features.
ContextRestored == features = {} /\ status = "done" => ctx = CallerContexts

\* The generated code keeps what defer, with and rooted pointers promise, in a
\* program without the constructs of features.  An error caught by the
\* function's handle leaves the scopes, and so runs their cleanups, before the
\* handle does: HandleBeforeCleanup is about that.
Lexical == INSTANCE LexicalCleanup
               WITH open <- [i \in 1..live |-> scopes[i].decls],
                    roots <- gc, contexts <- ctx
ImplementsLexical ==
    /\ features = {} => Lexical!LInit
    /\ [][features = {} => Lexical!LNext]_(Lexical!lvars)
=============================================================================
