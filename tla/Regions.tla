------------------------------- MODULE Regions -------------------------------
(***************************************************************************)
(* The lifetime regions of src/checker.py, against what a function does    *)
(* with the allocators of its with expressions.                            *)
(*                                                                         *)
(* A with that has a cleanup (.free, .reset) opens a region.  The checker  *)
(* walks the function, marks the expressions that allocate with the region *)
(* they allocate in, keeps a region for each variable, and rejects what    *)
(* would take a value out of its region.  It walks every body twice: a     *)
(* quiet pass first, whose marks stay on the tree, then the pass that      *)
(* reports.  Regions are numbered in the order they are opened in a pass.  *)
(*                                                                         *)
(* An expression or statement is a record with a field op; a path (a       *)
(* sequence of numbers) names a node of the tree.                          *)
(***************************************************************************)
EXTENDS Integers, Sequences, SequencesExt

CONSTANTS
    Allocators,  \* the names of the allocators
    Programs,    \* the bodies of the functions that are explored
    Turns        \* a bound on the turns of a loop

VARIABLES
    body,      \* the body of the function
    phase,     \* write, quiet, check, run, done
    checked,   \* what the last pass left: its regions, marks, errors
    escapes,   \* whether some run leaves a value where its memory is gone
    misplaced  \* whether some run puts a value where it may outlive its memory

vars == <<body, phase, checked, escapes, misplaced>>

-----------------------------------------------------------------------------
(* The trees.                                                              *)

Nowhere == [op |-> "none"]
Block(stmts, tail) == [stmts |-> stmts, tail |-> tail]

Var(x) == [op |-> "var", name |-> x]
Vec == [op |-> "vec"]
On(a) == [op |-> "on", in |-> a]                  \* vec[...] with a
Part(e) == [op |-> "part", arg |-> e]             \* e.len, e.x
Sum(e) == [op |-> "sum", arg |-> e]               \* e.x + 1
Call(e) == [op |-> "call", arg |-> e]             \* a function that returns its argument
BlockExpr(b) == [op |-> "block", body |-> b]
If(then, else) == [op |-> "if", then |-> then, else |-> else]
With(a, cleanup, b) == [op |-> "with", in |-> a, cleanup |-> cleanup, body |-> b]

Let(x, e) == [op |-> "let", name |-> x, arg |-> e]
Assign(x, e) == [op |-> "assign", name |-> x, arg |-> e]
Return(e) == [op |-> "return", arg |-> e]
Do(e) == [op |-> "do", arg |-> e]
Loop(b) == [op |-> "loop", body |-> b]

RECURSIVE IsVoid(_)
IsVoid(e) ==
    CASE e.op = "none" -> TRUE
      [] e.op \in {"block", "with"} -> IsVoid(e.body.tail)
      [] e.op = "if" -> IsVoid(e.then.tail)
      [] OTHER -> FALSE

-----------------------------------------------------------------------------
(* The checker.  Region 0 is no region: a value that no cleanup frees.     *)

NoRegion == 0

\* The environment's scopes: for each name its symbol.
PushScope(s) == [s EXCEPT !.scopes = Append(@, [n \in {} |-> 0])]
PopScope(s) == [s EXCEPT !.scopes = Front(@)]
Define(s, x, symbol) == [s EXCEPT !.scopes[Len(s.scopes)] = (x :> symbol) @@ @]
Depth(s, x) == LET in == {i \in DOMAIN s.scopes : x \in DOMAIN s.scopes[i]} IN
               IF in = {} THEN 0 ELSE CHOOSE i \in in : \A j \in in : j <= i
Lookup(s, x) == s.scopes[Depth(s, x)][x]

CurrentRegion(s) == IF s.stack # <<>> THEN Last(s.stack).region ELSE s.active

\* The region of the innermost with of this allocator.
TargetRegion(s, a) ==
    LET of == SelectSeq(s.stack, LAMBDA w : w.in = a) IN IF of = <<>> THEN NoRegion ELSE Last(of).region

\* Mutant: a region is outlived by itself only.
OutlivesItself(s, r, context) == r = NoRegion \/ r = context

RECURSIVE Within(_, _, _)
Within(s, r, context) == context # NoRegion /\ (context = r \/ Within(s, r, s.parent[context]))

\* Mutant: nothing is checked against the function's own context.
OutlivesFunction(s, r, context) == r = NoRegion \/ context = NoRegion \/ Within(s, r, context)

\* Whether what is in region r outlives the context.
Outlives(s, r, context) == r = NoRegion \/ Within(s, r, context)

Mark(s, path, r) == IF r = NoRegion THEN s ELSE [s EXCEPT !.marks = (path :> r) @@ @]

RECURSIVE Region(_, _, _)
Region(e, path, s) ==
    IF path \in DOMAIN s.marks THEN s.marks[path]
    ELSE CASE e.op = "var" -> IF Depth(s, e.name) = 0 THEN NoRegion ELSE Lookup(s, e.name).life
           [] e.op = "part" -> Region(e.arg, Append(path, 1), s)
           [] e.op = "block" -> Region(e.body.tail, path \o <<1, 0>>, s)
           [] e.op = "if" ->
                  LET of == {Region(e.then.tail, path \o <<1, 0>>, s), Region(e.else.tail, path \o <<2, 0>>, s)}
                               \ {NoRegion}
                  IN IF \E r \in of : of = {r} THEN CHOOSE r \in of : TRUE ELSE NoRegion
           [] OTHER -> NoRegion

EnsureCanEscape(s, r, context) == IF Outlives(s, r, context) THEN s ELSE [s EXCEPT !.errors = TRUE]

PushWith(s, w) ==
    IF w.in \notin Allocators THEN s
    ELSE LET r == IF w.cleanup THEN s.next ELSE NoRegion IN
         [s EXCEPT !.next = IF w.cleanup THEN @ + 1 ELSE @,
                   !.parent = IF w.cleanup THEN Append(@, CurrentRegion(s)) ELSE @,
                   !.stack = Append(@, [in |-> w.in, region |-> r]),
                   !.active = r]

\* Whether or not the with pushed anything.
PopWith(s, before) == [s EXCEPT !.stack = IF @ = <<>> THEN @ ELSE Front(@), !.active = before]

RECURSIVE Visit(_, _, _, _), VisitBlock(_, _, _, _), VisitStmts(_, _, _, _)

VisitWith(e, path, typed, s) ==
    LET in == VisitBlock(e.body, Append(path, 1), typed, PushWith(s, e))
        out == PopWith(in, s.active)
        tail == Region(e.body.tail, path \o <<1, 0>>, out)
    IN IF e.in \in Allocators /\ e.cleanup THEN Mark(EnsureCanEscape(out, tail, NoRegion), path, tail) ELSE out

\* With the type that is expected (typed: _check_expr) or without (_synth_expr).
Visit(e, path, typed, s) ==
    CASE e.op = "vec" -> Mark(s, path, CurrentRegion(s))
      [] e.op = "on" -> Mark(s, path, TargetRegion(s, e.in))
      [] e.op \in {"part", "sum"} -> Visit(e.arg, Append(path, 1), FALSE, s)
      [] e.op = "call" -> Visit(e.arg, Append(path, 1), TRUE, s)
      [] e.op = "block" -> VisitBlock(e.body, Append(path, 1), typed, s)
      [] e.op = "if" -> VisitBlock(e.else, Append(path, 2), typed, VisitBlock(e.then, Append(path, 1), typed, s))
      [] e.op = "with" -> VisitWith(e, path, typed, s)
      [] OTHER -> s

\* The tail is visited without a type, then again with it.
VisitBlock(b, path, typed, s) ==
    LET at == Append(path, 0)
        once == Visit(b.tail, at, FALSE, VisitStmts(b.stmts, path, 1, PushScope(s)))
        marked == Mark(once, at, Region(b.tail, at, once))
        flow == IsVoid(b.tail) /\ b.tail.op \in {"none", "if", "block"}
    IN PopScope(IF typed /\ ~flow THEN Visit(b.tail, at, TRUE, marked) ELSE marked)

VisitLet(l, at, s) ==
    LET init == Visit(l.arg, at, FALSE, s)
        r == Region(l.arg, at, init)
        decl == CurrentRegion(init)
    IN Define(EnsureCanEscape(init, r, decl), l.name,
              [life |-> IF Outlives(init, r, decl) THEN r ELSE NoRegion, decl |-> decl])

\* The value is held against its target before it is visited, and gives the
\* target its region after.
VisitAssign(a, at, s) ==
    LET decl == Lookup(s, a.name).decl
        value == Visit(a.arg, at, TRUE, EnsureCanEscape(s, Region(a.arg, at, s), decl))
        r == Region(a.arg, at, value)
    IN [value EXCEPT !.scopes[Depth(s, a.name)][a.name].life = IF Outlives(value, r, decl) THEN r ELSE NoRegion]

\* So is what is returned, unless it is a with.
VisitReturn(t, at, s) ==
    Visit(t.arg, at, TRUE, IF t.arg.op = "with" THEN s ELSE EnsureCanEscape(s, Region(t.arg, at, s), NoRegion))

VisitStmt(t, path, s) ==
    LET at == Append(path, 1) IN
    CASE t.op = "let" -> VisitLet(t, at, s)
      [] t.op = "assign" -> VisitAssign(t, at, s)
      [] t.op = "return" -> VisitReturn(t, at, s)
      [] t.op = "do" -> Visit(t.arg, at, FALSE, s)
      [] t.op = "loop" -> VisitBlock(t.body, at, FALSE, s)

VisitStmts(stmts, path, i, s) ==
    IF i > Len(stmts) THEN s ELSE VisitStmts(stmts, path, i + 1, VisitStmt(stmts[i], Append(path, i), s))

NotChecked ==
    [next |-> 1, parent |-> <<>>, stack |-> <<>>, active |-> NoRegion, scopes |-> <<>>,
     marks |-> [p \in {} |-> 0], errors |-> FALSE]

\* A pass has regions of its own; the marks and the allocator stack stay.
Pass(s) == VisitBlock(body, <<>>, TRUE, [s EXCEPT !.next = 1, !.parent = <<>>, !.errors = FALSE])

-----------------------------------------------------------------------------
(* Running.  A value is where its memory comes from and how often that     *)
(* allocator had been cleaned up; one that needs no memory has none.       *)

NoMemory == [in |-> "", at |-> 0]
Lost(v, o) == v.in \in Allocators /\ v.at < o.cleaned[v.in]

RECURSIVE RunBlock(_, _), Eval(_, _), RunStmts(_, _), RunLoop(_, _, _)

\* An outcome goes on with a value, or returns with one.
Then(outcomes, Rest(_)) == {o \in outcomes : o.returns} \cup UNION {Rest(o) : o \in {p \in outcomes : ~p.returns}}
Gives(o, v) == {[o EXCEPT !.value = v]}
Fresh(o, a) == Gives(o, IF a \in Allocators THEN [in |-> a, at |-> o.cleaned[a]] ELSE NoMemory)

EnterWith(e, o) ==
    IF e.in \in Allocators THEN [o EXCEPT !.active = e.in, !.depth[e.in] = Len(o.scopes)] ELSE o

\* At the end of a with: its allocator is cleaned up, and what is still in
\* scope, or is its result, has its memory or not.
LeaveWith(e, o, before) ==
    LET out == [o EXCEPT !.active = before,
                         !.cleaned = IF e.cleanup /\ e.in \in Allocators THEN [@ EXCEPT ![e.in] = @ + 1] ELSE @]
        held == {out.value} \cup UNION {{sc[x] : x \in DOMAIN sc} : sc \in Range(out.scopes)}
    IN [out EXCEPT !.escaped = @ \/ \E v \in held : Lost(v, out)]

Eval(e, o) ==
    CASE e.op = "none" -> Gives(o, NoMemory)
      [] e.op = "var" -> Gives(o, Lookup(o, e.name))
      [] e.op = "vec" -> Fresh(o, o.active)
      [] e.op = "on" -> Fresh(o, e.in)
      [] e.op \in {"part", "sum"} -> Then(Eval(e.arg, o), LAMBDA p : Gives(p, NoMemory))
      [] e.op = "call" -> Eval(e.arg, o)
      [] e.op = "block" -> RunBlock(e.body, o)
      [] e.op = "if" -> RunBlock(e.then, o) \cup RunBlock(e.else, o)
      [] e.op = "with" ->
             {LeaveWith(e, p, o.active) : p \in RunBlock(e.body, EnterWith(e, o))}

\* A variable from outside the with a value was allocated in outlives it.
Put(o, x, v) ==
    [o EXCEPT !.scopes[Depth(o, x)][x] = v,
              !.misplaced = @ \/ (v.in \in Allocators /\ Depth(o, x) <= o.depth[v.in])]

RunBlock(b, o) == {PopScope(q) : q \in Then(RunStmts(b.stmts, PushScope(o)), LAMBDA p : Eval(b.tail, p))}

RunLoop(n, b, o) == {o} \cup IF n = 0 THEN {} ELSE Then(RunBlock(b, o), LAMBDA p : RunLoop(n - 1, b, p))

RunStmt(t, o) ==
    CASE t.op = "let" -> Then(Eval(t.arg, o), LAMBDA p : {Define(p, t.name, p.value)})
      [] t.op = "assign" -> Then(Eval(t.arg, o), LAMBDA p : {Put(p, t.name, p.value)})
      [] t.op = "return" -> {[p EXCEPT !.returns = TRUE] : p \in Eval(t.arg, o)}
      [] t.op = "do" -> Eval(t.arg, o)
      [] t.op = "loop" -> RunLoop(Turns, t.body, o)

RunStmts(stmts, o) ==
    IF stmts = <<>> THEN {o} ELSE Then(RunStmt(Head(stmts), o), LAMBDA p : RunStmts(Tail(stmts), p))

Start ==
    [scopes |-> <<>>, active |-> "", depth |-> [a \in Allocators |-> 0],
     cleaned |-> [a \in Allocators |-> 0], value |-> NoMemory,
     returns |-> FALSE, escaped |-> FALSE, misplaced |-> FALSE]

-----------------------------------------------------------------------------
Init ==
    /\ body = Block(<<>>, Nowhere)
    /\ phase = "write"
    /\ checked = NotChecked
    /\ escapes = FALSE /\ misplaced = FALSE

Write ==
    /\ phase = "write"
    /\ body' \in Programs
    /\ phase' = "quiet"
    /\ UNCHANGED <<checked, escapes, misplaced>>

Quiet ==
    /\ phase = "quiet"
    /\ checked' = Pass(checked)
    /\ phase' = "check"
    /\ UNCHANGED <<body, escapes, misplaced>>

Check ==
    /\ phase = "check"
    /\ checked' = Pass(checked)
    /\ phase' = "run"
    /\ UNCHANGED <<body, escapes, misplaced>>

Run ==
    /\ phase = "run"
    /\ LET outcomes == RunBlock(body, Start) IN
       /\ escapes' = (\E o \in outcomes : o.escaped)
       /\ misplaced' = (\E o \in outcomes : o.misplaced)
    /\ phase' = "done"
    /\ UNCHANGED <<body, checked>>

Next == Write \/ Quiet \/ Check \/ Run
Spec == Init /\ [][Next]_vars

-----------------------------------------------------------------------------
(* The functions the analysis is precise about.                            *)

RECURSIVE Nodes(_, _, _)
\* The expressions and statements under a node, each with the allocators of
\* the withs around it and whether a type is expected of it.
Nodes(e, around, typed) ==
    LET InBlock(b, ar) ==
            UNION {Nodes(b.stmts[i], ar, FALSE) : i \in DOMAIN b.stmts} \cup Nodes(b.tail, ar, typed)
    IN {[node |-> e, around |-> around, typed |-> typed]} \cup
       CASE e.op \in {"part", "sum", "let", "do"} -> Nodes(e.arg, around, FALSE)
         [] e.op \in {"call", "assign", "return"} -> Nodes(e.arg, around, TRUE)
         [] e.op \in {"block", "loop"} -> InBlock(e.body, around)
         [] e.op = "with" -> InBlock(e.body, around \cup {e.in})
         [] e.op = "if" -> InBlock(e.then, around) \cup InBlock(e.else, around)
         [] OTHER -> {}

Whole == BlockExpr(body)
Ops(e) == {n.node.op : n \in Nodes(e, {}, FALSE)}

\* Straight-line code with the lifetimes in its text: every with opens a
\* region of an allocator of its own, nothing goes through a call, and no value
\* is assigned that assigns in turn: the tail of a tail is visited twice, the
\* second time with what the first has left in the variables.
Lexical ==
    \A n \in Nodes(Whole, {}, TRUE) :
        /\ n.node.op \notin {"if", "loop", "call"}
        /\ n.node.op = "with" => n.node.in \in Allocators \ n.around /\ n.node.cleanup
        /\ n.node.op = "on" => n.node.in \in n.around
        /\ n.node.op = "assign" => "assign" \notin Ops(n.node.arg)

\* Values that go where they go directly.  No with is at the end of a block
\* whose type is expected, so that each is visited once in a pass; no part of a
\* value is taken for the whole; a with inside another gives no memory, not
\* even of the other; a block gives none, since what it gives is looked up
\* before it is entered and after it is left.
Direct ==
    \A n \in Nodes(Whole, {}, TRUE) :
        /\ n.node.op # "part"
        /\ n.node.op = "with" => ~n.typed /\ (n.around # {} => n.node.body.tail.op \in {"none", "sum"})
        /\ n.node.op = "block" => n.node = Whole \/ IsVoid(n.node)

\* Nothing is written after a return but a value of the function's own block.
NoDeadCode ==
    \A n \in Nodes(Whole, {}, TRUE) : n.node.op \in {"block", "with"} =>
        LET b == n.node.body IN
        \A i \in DOMAIN b.stmts : "return" \in Ops(b.stmts[i]) =>
            /\ i = Len(b.stmts)
            /\ b.tail = Nowhere \/ (n.node = Whole /\ b.tail = Vec)

Accepted == ~checked.errors

\* Each pass leaves the checker outside every with and every scope.
TypeOK ==
    /\ phase \in {"write", "quiet", "check", "run", "done"}
    /\ checked.stack = <<>> /\ checked.active = NoRegion /\ checked.scopes = <<>>
    /\ \A p \in DOMAIN checked.marks : checked.marks[p] < checked.next
    /\ escapes \in BOOLEAN /\ misplaced \in BOOLEAN

\* No value of an accepted function is in a variable, a result or a return
\* value when a cleanup has taken its memory.
NothingEscapes == phase = "done" /\ Accepted => ~escapes

\* So it is for the functions with lexical lifetimes.
LexicalKept == Lexical => NothingEscapes

\* And such a function, if its values go directly and no code in it is dead, is
\* rejected only if its run does put a value where it outlives its memory: in a
\* variable from outside the with, in a result or in what is returned.  (The
\* variable may be overwritten before the cleanup.)
RejectedEscapes ==
    phase = "done" /\ Lexical /\ Direct /\ NoDeadCode /\ ~Accepted => misplaced \/ escapes
=============================================================================
