----------------------------- MODULE ErrorSets -----------------------------
(***************************************************************************)
(* How src/checker.py finds which errors a function with a bare !T return  *)
(* type can return (InferredErrorSetPass), between a first check of the    *)
(* bodies, whose only use is the types it leaves on handle blocks, and the *)
(* real one; and what the C code of the accepted functions does with       *)
(* errors.  The pass is a fixed point over the functions in their order in *)
(* the file, each of which reads the return types of the others as they    *)
(* are at that moment.                                                     *)
(*                                                                         *)
(* A program is a function from names to functions: a return type, a body  *)
(* and perhaps a handle block.  A body is a tree of records with a field   *)
(* op; what is tried is a call.  The payload of every error union is an    *)
(* integer, an error set is the set of its members, and an error is one of *)
(* a member's values.                                                      *)
(***************************************************************************)
EXTENDS Integers, Sequences, Selection, SequencesExt, FiniteSetsExt

CONSTANTS
    Order,      \* the names of the functions, in the order of the file
    Errors,     \* the error sets that are declared
    Names,      \* the names that lets bind
    Nesting,    \* a bound on how deep blocks are in blocks
    Definitions \* for each function, the definitions of it that are explored

Functions == Range(Order)

VARIABLES
    prog,       \* the program
    phase,      \* write, quiet, infer, check, run, or done
    ret,        \* the return type of each function's symbol
    annotated,  \* the return types when the handles' bindings were last typed
    turn,       \* the place in Order of the function being written or inferred
    changed,    \* some type has changed in this round
    rounds,     \* rounds begun
    verdict,    \* none, rejected (by the checker), broken (by the C compiler), built
    returned,   \* what the calls of each function can return at run time
    strays      \* how errors went astray in them: unseen, lost, fnHandle, end (below)

vars == <<prog, phase, ret, annotated, turn, changed, rounds, verdict, returned, strays>>

-----------------------------------------------------------------------------
(* The trees, by how deep their blocks are nested.                         *)

NoBlock == [stmts |-> <<>>, tail |-> [op |-> "none"], absent |-> TRUE]
HasHandle(node) == ~node.handle.absent

BindingName == "e"      \* of every handle
Variables == Names \cup {BindingName}

Simple ==
    [op : {"val", "none"}] \cup [op : {"error"}, of : Errors] \cup [op : {"var"}, name : Variables]
    \cup [op : {"call", "try", "catch"}, fun : Functions]
Exprs(blocks) ==
    Simple \cup [op : {"if"}, then : blocks, else : blocks]
    \cup [op : {"with"}, cleanup : BOOLEAN, body : blocks, handle : blocks]
Stmts(blocks) ==
    [op : {"let"}, name : Variables, arg : Exprs(blocks)] \cup [op : {"expr", "return"}, arg : Exprs(blocks)]
    \cup [op : {"while"}, arg : Exprs(blocks), body : blocks]

Blocks[n \in 0..Nesting] ==
    IF n = 0 THEN {NoBlock}
    ELSE LET within == Blocks[n - 1] IN
         {NoBlock} \cup [stmts : Seq(Stmts(within)), tail : Exprs(within), absent : {FALSE}]

FunDecls ==
    [ret : {"inferred", "declared", "void"}, set : SUBSET Errors,
     body : Blocks[Nesting], handle : Blocks[Nesting]]

ASSUME ProgramsAssumption ==
    /\ Order \in Seq(Functions) /\ Order # <<>> /\ IsInjective(Order)
    /\ Nesting \in Nat
    /\ Definitions \in [Functions -> SUBSET FunDecls]

-----------------------------------------------------------------------------
(* Types and error sets.                                                   *)

Types == [k : {"int", "void", "set", "union"}, set : SUBSET Errors, known : BOOLEAN]

IntType == [k |-> "int", set |-> {}, known |-> TRUE]
VoidType == [k |-> "void", set |-> {}, known |-> TRUE]
ErrorSet(s) == [k |-> "set", set |-> s, known |-> TRUE]
\* An error union; before inference the set of a bare !T is not known.
ErrorUnion(s) == [k |-> "union", set |-> s, known |-> TRUE]
Inferred == [k |-> "union", set |-> {}, known |-> FALSE]

\* Of types that are not error sets, nothing is merged.
Merged(ty) == IF ty.k = "set" THEN ty.set ELSE {}
UnionSet(ty) == IF ty.k = "union" THEN ty.set ELSE {}
Unwrapped(ty) == IF ty.k = "union" THEN IntType ELSE ty

\* The type of a handle's binding from the sets its tries noted.
BindingType(noted) == IF noted = {} THEN IntType ELSE ErrorSet(noted)

DeclaredRet(fn) ==
    CASE fn.ret = "inferred" -> Inferred
      [] fn.ret = "declared" -> ErrorUnion(fn.set)
      [] fn.ret = "void"     -> VoidType

InferredFunctions == Chosen(Order, {f \in Functions : prog[f].ret = "inferred"})

\* The type of an expression: rets are the functions' return types, sc the
\* types of the names in scope.
TypeOf(e, rets, sc) ==
    CASE e.op = "val"   -> IntType
      [] e.op = "error" -> ErrorSet({e.of})
      [] e.op = "var"   -> sc[e.name]
      [] e.op = "call"  -> rets[e.fun]
      [] e.op \in {"try", "catch"} -> Unwrapped(rets[e.fun])
      [] OTHER -> VoidType

\* The types of the names in scope, a name that is not being of no type.
Scopes == [Variables -> Types]
NoNames == [x \in Variables |-> VoidType]

\* A let is in scope in the rest of its block: the scopes after its statements.
Scoped(s, rets, sc) ==
    IF s.op = "let" THEN [sc EXCEPT ![s.name] = TypeOf(s.arg, rets, sc)] ELSE sc
ScopesIn(b, rets, sc) ==
    LET after[i \in 0..Len(b.stmts)] == IF i = 0 THEN sc ELSE Scoped(b.stmts[i], rets, after[i - 1])
    IN after

HandleScope(sc, noted) == [sc EXCEPT ![BindingName] = BindingType(noted)]

-----------------------------------------------------------------------------
(* The errors that leave a piece of a body, as the pass collects them: by  *)
(* a try no handle intercepts, or as a value where one is returned.  Those *)
(* of the blocks in it are within; a block that is absent has none.        *)

ExprTried(within, e, rets, intercept) ==
    CASE e.op = "try" -> IF intercept THEN {} ELSE UnionSet(rets[e.fun])
      [] e.op = "if" -> within[e.then][intercept] \cup within[e.else][intercept]
      \* a handle is not intercepted by itself nor by what is around it
      [] e.op = "with" -> within[e.body][intercept \/ HasHandle(e)] \cup within[e.handle][FALSE]
      [] OTHER -> {}

StmtTried(within, s, rets, intercept) ==
    ExprTried(within, s.arg, rets, intercept) \cup (IF s.op = "while" THEN within[s.body][intercept] ELSE {})

BlockTried(within, b, rets, intercept) ==
    ExprTried(within, b.tail, rets, intercept)
    \cup UNION {StmtTried(within, s, rets, intercept) : s \in Range(b.stmts)}

Tried(rets) ==
    LET tried[n \in 0..Nesting] ==
            IF n = 0 THEN [b \in {NoBlock} |-> [intercept \in BOOLEAN |-> {}]]
            ELSE [b \in Blocks[n] |-> [intercept \in BOOLEAN |-> BlockTried(tried[n - 1], b, rets, intercept)]]
    IN tried

\* What the tries of a block note for the handle around it.
Noted(b, rets) == Tried(rets)[Nesting][b][FALSE]

\* noted are the tries of the blocks within by which bindings are typed; what
\* escapes is returned.
ExprReturned(within, noted, e, rets, sc, escapes) ==
    CASE e.op = "if" -> within[e.then][sc][escapes] \cup within[e.else][sc][escapes]
      [] e.op = "with" -> within[e.body][sc][escapes]
                          \cup within[e.handle][HandleScope(sc, noted[e.body][FALSE])][escapes]
      [] OTHER -> IF escapes THEN Merged(TypeOf(e, rets, sc)) ELSE {}

StmtReturned(within, noted, s, rets, sc) ==
    ExprReturned(within, noted, s.arg, rets, sc, s.op = "return")
    \cup (IF s.op = "while" THEN within[s.body][sc][FALSE] ELSE {})

BlockReturned(within, noted, b, rets, sc, escapes) ==
    LET after == ScopesIn(b, rets, sc) IN
    ExprReturned(within, noted, b.tail, rets, after[Len(b.stmts)], escapes)
    \cup UNION {StmtReturned(within, noted, b.stmts[i], rets, after[i - 1]) : i \in DOMAIN b.stmts}

Returned(rets, bound) ==
    LET values[n \in 0..Nesting] ==
            IF n = 0 THEN [b \in {NoBlock} |-> [sc \in Scopes |-> [escapes \in BOOLEAN |-> {}]]]
            ELSE [b \in Blocks[n] |-> [sc \in Scopes |-> [escapes \in BOOLEAN |->
                     BlockReturned(values[n - 1], Tried(bound)[n - 1], b, rets, sc, escapes)]]]
    IN values

InferFun(f) ==
    LET fn == prog[f]
        tried == Tried(ret)[Nesting]
        values == Returned(ret, annotated)[Nesting]
    IN tried[fn.body][HasHandle(fn)] \cup values[fn.body][NoNames][TRUE]
       \cup tried[fn.handle][FALSE]
       \cup values[fn.handle][HandleScope(NoNames, Noted(fn.body, annotated))][TRUE]

-----------------------------------------------------------------------------
(* What the body checker complains of, with the return types it finds.     *)
(* c.handle: a with around has a handle; c.region: the innermost one       *)
(* cleans up.  What is around a with's body is around its handle too.      *)

Contexts == [handle : BOOLEAN, region : BOOLEAN]

\* Mutant: an error of any set is taken.
CoercesAny(got, expected) == got.k \in {"int", "set"} \/ got = expected

\* A value in a place of an error union's type: its payload, an error of its
\* set, or an error union of the very same type.
Coerces(got, expected) ==
    \/ got.k = "int"
    \/ got.k = "set" /\ (expected.known => got.set \subseteq expected.set)
    \/ got = expected

TryAllowed(f, c) ==
    \/ prog[f].ret # "void"
    \/ c.handle
    \/ HasHandle(prog[f]) /\ ~c.region

Unless(ok, code) == IF ok THEN {} ELSE {code}

ExprDiags(within, noted, e, sc, f, c) ==
    CASE e.op = "try" -> Unless(ret[e.fun].k = "union", "try-non-error-union")
                         \cup Unless(TryAllowed(f, c), "try-context")
      [] e.op = "if" -> within[e.then][sc][c] \cup within[e.else][sc][c]
      [] e.op = "with" ->
             LET inside == [handle |-> c.handle \/ HasHandle(e), region |-> e.cleanup] IN
             within[e.body][sc][inside]
             \cup within[e.handle][HandleScope(sc, noted[e.body][FALSE])][inside]
      [] OTHER -> {}

StmtDiags(within, noted, s, sc, f, c) ==
    ExprDiags(within, noted, s.arg, sc, f, c)
    \cup Unless(s.op = "return" => Coerces(TypeOf(s.arg, ret, sc), ret[f]), "wrong-error-set")
    \cup (IF s.op = "while" THEN within[s.body][sc][c] ELSE {})

BlockDiags(within, noted, b, sc, f, c) ==
    LET after == ScopesIn(b, ret, sc) IN
    ExprDiags(within, noted, b.tail, after[Len(b.stmts)], f, c)
    \cup UNION {StmtDiags(within, noted, b.stmts[i], after[i - 1], f, c) : i \in DOMAIN b.stmts}

Diags(f) ==
    LET diags[n \in 0..Nesting] ==
            IF n = 0 THEN [b \in {NoBlock} |-> [sc \in Scopes |-> [c \in Contexts |-> {}]]]
            ELSE [b \in Blocks[n] |-> [sc \in Scopes |-> [c \in Contexts |->
                     BlockDiags(diags[n - 1], Tried(ret)[n - 1], b, sc, f, c)]]]
    IN diags

\* The tail of a body is what the function returns; that of its handle is not.
FunDiags(f) ==
    LET fn == prog[f]
        c == [handle |-> FALSE, region |-> FALSE]
        diags == Diags(f)[Nesting]
        tail == TypeOf(fn.body.tail, ret, ScopesIn(fn.body, ret, NoNames)[Len(fn.body.stmts)])
    IN diags[fn.body][NoNames][c]
       \cup Unless(ret[f].k = "union" /\ fn.body.tail.op # "none" => Coerces(tail, ret[f]), "wrong-error-set")
       \cup diags[fn.handle][HandleScope(NoNames, Noted(fn.body, ret))][c]

-----------------------------------------------------------------------------
(* The C code of a function, run.  A value is "ok" (an integer) or the     *)
(* error set of an error object.  Where a try goes (target): to the handle *)
(* of a with, to the function's, or out of the function.  An outcome goes  *)
(* on with a value, returns one, or jumps to a handle with an error.  rs   *)
(* are the results a call can have.                                        *)

Values == Errors \cup {"ok"}
Targets == {"withHandle", "fnHandle", "out"}
Outcome(k, v) == [k |-> k, v |-> v]
Goes(v) == Outcome("go", v)
Returns(v) == Outcome("return", v)
Going(outcomes) == {o.v : o \in {p \in outcomes : p.k = "go"}}
Leaving(outcomes) == {o \in outcomes : o.k # "go"}

\* The values of the names in scope.
Envs == [Variables -> Values]
NoValues == [x \in Variables |-> "ok"]

\* A failing try.  A function that returns no error union goes on.
Fails(f, target, err) ==
    IF target # "out" THEN Outcome(target, err)
    ELSE IF ret[f].k = "union" THEN Returns(err)
    ELSE Outcome("lost", err)

TryTarget(f) == IF HasHandle(prog[f]) THEN "fnHandle" ELSE "out"

\* A handle entered with an error its binding has no room for is "unseen".
Handled(outcomes, here, noted, handle, env, target) ==
    LET caught == {o.v : o \in {p \in outcomes : p.k = here}} IN
    {o \in outcomes : o.k # here}
    \cup {Outcome("unseen", v) : v \in caught \ noted}
    \cup UNION {handle[[env EXCEPT ![BindingName] = v]][target] : v \in caught}

ExprOutcomes(within, noted, e, env, f, target, rs) ==
    CASE e.op \in {"val", "none"} -> {Goes("ok")}
      [] e.op = "error" -> {Goes(e.of)}
      [] e.op = "var" -> {Goes(env[e.name])}
      [] e.op = "call" -> {Goes(v) : v \in rs[e.fun]}
      [] e.op = "catch" -> {Goes("ok") : v \in rs[e.fun]}
      [] e.op = "try" -> {IF v = "ok" THEN Goes(v) ELSE Fails(f, target, v) : v \in rs[e.fun]}
      [] e.op = "if" -> within[e.then][env][target] \cup within[e.else][env][target]
      [] e.op = "with" ->
             IF ~HasHandle(e) THEN within[e.body][env][target]
             ELSE Handled(within[e.body][env]["withHandle"], "withHandle", noted[e.body][FALSE],
                          within[e.handle], env, target)

\* What a statement makes of the values of the names when it goes on, if it
\* does, and how it leaves the block.
After(outcomes, s, env) ==
    CASE s.op = "let" -> {[env EXCEPT ![s.name] = v] : v \in Going(outcomes)}
      [] s.op = "return" -> {}
      [] OTHER -> {env : v \in Going(outcomes)}
Exits(within, outcomes, s, env, target) ==
    Leaving(outcomes)
    \cup CASE s.op = "return" -> {Returns(v) : v \in Going(outcomes)}
           [] s.op = "while" -> UNION {Leaving(within[s.body][env][target]) : v \in Going(outcomes)}
           [] OTHER -> {}

\* The values of the names after the statements of a block.
EnvsIn(within, noted, b, env, f, target, rs) ==
    LET envs[i \in 0..Len(b.stmts)] ==
            IF i = 0 THEN {env}
            ELSE UNION {After(ExprOutcomes(within, noted, b.stmts[i].arg, at, f, target, rs), b.stmts[i], at) :
                           at \in envs[i - 1]}
    IN envs

BlockOutcomes(within, noted, b, env, f, target, rs) ==
    LET envs == EnvsIn(within, noted, b, env, f, target, rs)
        expr(e, at) == ExprOutcomes(within, noted, e, at, f, target, rs)
    IN (UNION {expr(b.tail, at) : at \in envs[Len(b.stmts)]})
       \cup UNION {UNION {Exits(within, expr(b.stmts[i].arg, at), b.stmts[i], at, target) : at \in envs[i - 1]} :
                      i \in DOMAIN b.stmts}

Outcomes(f, rs) ==
    LET outcomes[n \in 0..Nesting] ==
            IF n = 0 THEN [b \in {NoBlock} |-> [env \in Envs |-> [target \in Targets |-> {Goes("ok")}]]]
            ELSE [b \in Blocks[n] |-> [env \in Envs |-> [target \in Targets |->
                     BlockOutcomes(outcomes[n - 1], Tried(ret)[n - 1], b, env, f, target, rs)]]]
    IN outcomes

\* Mutant: the binding keeps the type the first check gave it.
BindingQuiet(f) == Noted(prog[f].body, [g \in Functions |-> DeclaredRet(prog[g])])

Binding(f) == Noted(prog[f].body, ret)

\* A body goes on with the value the function returns, if it has one; a
\* function that comes to its end without a return of its error union is "end".
\* A failing try in the handle of the function comes back to it.
FunOutcomes(f, rs) ==
    LET fn == prog[f]
        run == Outcomes(f, rs)[Nesting]
        body == {IF o.k = "go" /\ fn.ret # "void" /\ fn.body.tail.op # "none" THEN Returns(o.v) ELSE o :
                    o \in run[fn.body][NoValues][TryTarget(f)]}
        end == IF fn.ret = "void" THEN Returns("ok") ELSE Outcome("end", "ok")
    IN {IF o.k = "go" THEN end ELSE o :
           o \in Handled(body, "fnHandle", Binding(f), run[fn.handle], NoValues, TryTarget(f))}

Results(outcomes) == {o.v : o \in {p \in outcomes : p.k = "return"}}

\* A try that leaves the function returns the struct of its own error union
\* where it cannot convert it, which C takes for the function's only if it is.
Builds(f) ==
    ret[f].k = "union" /\ ~HasHandle(prog[f]) => Noted(prog[f].body, ret) \subseteq ret[f].set

-----------------------------------------------------------------------------
\* Mutant: one round.
MaxRoundsOne == 1

MaxRounds == Max({4, 4 * Len(InferredFunctions)})

Unwritten == [ret |-> "void", set |-> {}, body |-> NoBlock, handle |-> NoBlock]

Init ==
    /\ prog = [f \in Functions |-> Unwritten] /\ phase = "write"
    /\ ret = [f \in Functions |-> VoidType] /\ annotated = ret
    /\ turn = 1 /\ changed = FALSE /\ rounds = 1
    /\ verdict = "none"
    /\ returned = [f \in Functions |-> {}]
    /\ strays = {}

\* The next function of the file, and its type in the symbol table.
Write ==
    /\ phase = "write"
    /\ LET f == Order[turn] IN
       \E fn \in Definitions[f] : prog' = [prog EXCEPT ![f] = fn] /\ ret' = [ret EXCEPT ![f] = DeclaredRet(fn)]
    /\ IF turn = Len(Order) THEN phase' = "quiet" /\ turn' = 1 ELSE turn' = turn + 1 /\ UNCHANGED phase
    /\ UNCHANGED <<annotated, changed, rounds, verdict, returned, strays>>

\* The check before the inference, whose diagnostics are dropped.
Quiet ==
    /\ phase = "quiet"
    /\ annotated' = ret
    /\ phase' = IF InferredFunctions = <<>> THEN "check" ELSE "infer"
    /\ UNCHANGED <<prog, ret, turn, changed, rounds, verdict, returned, strays>>

Infer ==
    /\ phase = "infer" /\ turn <= Len(InferredFunctions)
    /\ LET f == InferredFunctions[turn] IN
           /\ ret' = [ret EXCEPT ![f] = ErrorUnion(InferFun(f))]
           /\ changed' = (changed \/ ret'[f] # ret[f])
    /\ turn' = turn + 1
    /\ UNCHANGED <<prog, phase, annotated, rounds, verdict, returned, strays>>

EndRound ==
    /\ phase = "infer" /\ turn > Len(InferredFunctions)
    /\ IF changed /\ rounds < MaxRounds
       THEN rounds' = rounds + 1 /\ turn' = 1 /\ changed' = FALSE /\ UNCHANGED phase
       ELSE phase' = "check" /\ UNCHANGED <<rounds, turn, changed>>
    /\ UNCHANGED <<prog, ret, annotated, verdict, returned, strays>>

Check ==
    /\ phase = "check"
    /\ annotated' = ret
    /\ verdict' = IF \E f \in Functions : FunDiags(f) # {} THEN "rejected"
                  ELSE IF \E f \in Functions : ~Builds(f) THEN "broken" ELSE "built"
    /\ phase' = IF verdict' = "built" THEN "run" ELSE "done"
    /\ UNCHANGED <<prog, ret, turn, changed, rounds, returned, strays>>

\* Every way the functions can run, with one more call in a call than before.
Run ==
    /\ phase = "run"
    /\ returned' = [f \in Functions |-> Results(FunOutcomes(f, returned))]
    /\ strays' = {o.k : o \in UNION {FunOutcomes(f, returned) : f \in Functions}} \ {"return"}
    /\ phase' = IF returned' = returned THEN "done" ELSE phase
    /\ UNCHANGED <<prog, ret, annotated, turn, changed, rounds, verdict>>

Next == Write \/ Quiet \/ Infer \/ EndRound \/ Check \/ Run
Spec == Init /\ [][Next]_vars

-----------------------------------------------------------------------------
\* The variables have their types.
TypeOK ==
    /\ prog \in [Functions -> FunDecls]
    /\ phase \in {"write", "quiet", "infer", "check", "run", "done"}
    /\ ret \in [Functions -> Types] /\ annotated \in [Functions -> Types]
    /\ turn \in 1..(Len(Order) + 1) /\ changed \in BOOLEAN /\ rounds \in 1..MaxRounds
    /\ verdict \in {"none", "rejected", "broken", "built"}
    /\ returned \in [Functions -> SUBSET Values]
    /\ strays \subseteq {"unseen", "lost", "fnHandle", "end"}

\* The rounds the pass allows itself are enough: when it stops, going over any
\* function again would find what its symbol has.
Converged ==
    phase = "check" => \A f \in Range(InferredFunctions) : ret[f] = ErrorUnion(InferFun(f))

\* No function ever returns an error that is not in the set its callers see,
\* and by which its C result type and their matches are made.
RaisedDeclared ==
    \A f \in Functions : ret[f].k = "union" => returned[f] \subseteq ret[f].set \cup {"ok"}

\* A handle's binding has a type with room for every error that reaches it.
BindingsHold == "unseen" \notin strays

\* Every failing try goes to a handle or out of the function as its result:
\* no error is lost, the function going on with a payload that is not there.
NothingLost == "lost" \notin strays
=============================================================================
