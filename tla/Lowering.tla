------------------------------ MODULE Lowering ------------------------------
(***************************************************************************)
(* How src/ccodegen.py turns the expressions and statements of a function  *)
(* into C, and whether the C makes the calls the function makes.           *)
(*                                                                         *)
(* _expr returns the text of an expression and, before it does, writes to  *)
(* the function's lines whatever the text cannot say (temporaries, ifs,    *)
(* switches, the exits of a try).  The lines run where the enclosing       *)
(* statement is, whether or not the text does, and the text runs as often  *)
(* as its user writes it.                                                  *)
(*                                                                         *)
(* Mesa and C are written in one tree language, a record with a field op,  *)
(* so that one evaluator gives both their meaning; C uses the part of it   *)
(* that has no try, catch, orelse, captures or conversions, and adds       *)
(* temporaries.  A value is 1 (true, some, a list of one), 0 (false, none, *)
(* an empty list) or Failed (an error).  What is observed is the calls, in *)
(* order, and what the function returns.  Neither language fixes the order *)
(* of the operands of a call or an operator.                               *)
(***************************************************************************)
EXTENDS Integers, Sequences, SequencesExt

CONSTANTS
    Kinds,       \* the kind of result of each function: int, void, int!, void!
    FirstTrue,   \* for each function, how many of its calls give 1 before they give 0 or fail
    Programs,    \* the functions that are explored
    Turns        \* a bound on the turns of a while

VARIABLES
    body,      \* the statements of the function
    fallible,  \* the function's return type is an error union
    phase,     \* write, compile, run, done
    code,      \* its C lines
    inMesa,    \* what is seen of the ways the function can run ...
    inC        \* ... and of the ways its C can

vars == <<body, fallible, phase, code, inMesa, inC>>

Failed == -1
IsFallible(kind) == kind \in {"int!", "void!"}

-----------------------------------------------------------------------------
(* The tree language.                                                      *)

Pure == [op |-> "pure"]
\* Where _expr returns "/* void */": there is no text to use.
Nothing == [op |-> "nothing"]
Block(stmts, tail) == [stmts |-> stmts, tail |-> tail]
Empty == Block(<<>>, Nothing)

Do(e) == [op |-> "do", arg |-> e]
Let(n, e) == [op |-> "let", name |-> n, arg |-> e]
Return(e) == [op |-> "return", arg |-> e]
While(cond, b) == [op |-> "while", arg |-> cond, body |-> b]
\* Loops over a range and over a list, whose end or list is read once; and
\* C's for, whose end is read at each turn.
ForRange(end, b) == [op |-> "range", arg |-> end, body |-> b]
ForIter(list, b) == [op |-> "each", arg |-> list, body |-> b]
CFor(end, b) == [op |-> "for", arg |-> end, body |-> b]

Temp(n) == [op |-> "temp", name |-> n]
\* A name of "" is an operator; text is the operands in the order and as
\* often as the C text has them.
Apply(name, of, text) == [op |-> "apply", name |-> name, of |-> of, text |-> text]
Operator(of) == Apply("", of, [i \in DOMAIN of |-> i])
If(cond, then, else) == [op |-> "if", arg |-> cond, then |-> then, else |-> else]
Match(value, on, arms) == [op |-> "match", arg |-> value, on |-> on, arms |-> arms]
\* The values an arm takes, and whether it names them.
Arm(takes, named, b) == [takes |-> takes, named |-> named, body |-> b]
BlockExpr(b) == [op |-> "block", body |-> b]
Lazy(when, left, right) == [op |-> "lazy", when |-> when, left |-> left, right |-> right]
Try(e) == [op |-> "try", arg |-> e]
Catch(e, arm) == [op |-> "catch", arg |-> e, arm |-> arm]
OrElse(opt, alt) == [op |-> "orelse", arg |-> opt, alt |-> alt]
IfSome(opt, then, else) == [op |-> "ifsome", arg |-> opt, then |-> then, else |-> else]
\* A value that is copied to a temporary: converted to an interface, cloned
\* to an allocator, escaped from a region, formatted.
Copy(e) == [op |-> "copy", arg |-> e]
VecLit(of) == [op |-> "vec", of |-> of]
VecComp(iter, e) == [op |-> "comp", arg |-> iter, each |-> e]

(* The forms that are operators or calls.                                  *)

Call(f, of) == Apply(f, of, [i \in DOMAIN of |-> i])
Binary(l, r) == Operator(<<l, r>>)
UncertainSum(l, r) == Apply("", <<l, r>>, <<1, 2, 1, 1, 2, 2>>)
Unary(e) == Operator(<<e>>)
Field(e) == Operator(<<e>>)
ErrorField(e) == Apply("", <<e>>, <<1, 1>>)
Index(obj, i) == Operator(<<obj, i>>)
Literal(of) == Operator(of)
MethodCall(m, recv, of) == Call(m, <<recv>> \o of)
\* The receiver's vtable, whether it is inline, and where it is.
AnyCall(m, recv, of) == Apply(m, <<recv>> \o of, <<1, 1, 1>> \o [i \in DOMAIN of |-> i + 1])
Println(e) == Call("v", <<e>>)
Interpolation(e) == Copy(Apply("", <<e>>, <<1, 1>>))
Assign(target, e) == Do(Operator(<<target, e>>))
PowerAssign(target, e) == Do(Apply("", <<target, e>>, <<1, 1, 2>>))

RECURSIVE TypeOf(_)
TypeOf(e) ==
    CASE e.op = "nothing" -> "void"
      [] e.op = "apply" -> IF e.name = "" THEN "int" ELSE Kinds[e.name]
      [] e.op = "try" -> IF TypeOf(e.arg) = "void!" THEN "void" ELSE "int"
      [] e.op \in {"if", "ifsome"} -> TypeOf(e.then.tail)
      [] e.op = "match" -> TypeOf(e.arms[1].body.tail)
      [] e.op = "block" -> TypeOf(e.body.tail)
      [] OTHER -> "int"

-----------------------------------------------------------------------------
(* Running.  A state has the calls made so far and the temporaries; an     *)
(* outcome has a state and goes on, returns, reads a temporary that was    *)
(* never set (unset), or takes more turns than the bound (endless).        *)

Outcome(k, v, st) == [k |-> k, v |-> v, calls |-> st.calls, temps |-> st.temps]
Goes(v, st) == {Outcome("go", v, st)}

After(outcomes, Rest(_)) ==
    {o \in outcomes : o.k # "go"} \cup UNION {Rest(o) : o \in {p \in outcomes : p.k = "go"}}

\* The k-th call of a function gives 1 while k is at most firstTrue[f].
Answer(f, st, firstTrue) ==
    LET k == Len(SelectSeq(st.calls, LAMBDA g : g = f)) IN
    IF k < firstTrue[f] THEN 1 ELSE IF IsFallible(Kinds[f]) THEN Failed ELSE 0
Called(f, st, firstTrue) == Goes(Answer(f, st, firstTrue), [st EXCEPT !.calls = Append(@, f)])

RECURSIVE Eval(_, _, _), Operands(_, _, _), RunBlock(_, _, _), Stmts(_, _, _), Repeat(_, _, _, _),
          Turn(_, _, _, _)

\* The operands in any order.
Operands(of, st, ft) ==
    IF of = <<>> THEN Goes(1, st)
    ELSE UNION {After(Eval(of[i], st, ft), LAMBDA o : Operands(RemoveAt(of, i), o, ft)) : i \in DOMAIN of}

\* Until the end is reached; while the condition holds, for n turns at most.
Repeat(i, s, st, ft) ==
    After(Eval(s.arg, st, ft),
          LAMBDA o : IF i >= o.v THEN Goes(1, o)
                     ELSE After(RunBlock(s.body, o, ft), LAMBDA p : Repeat(i + 1, s, p, ft)))

Turn(n, s, st, ft) ==
    IF n = 0 THEN {Outcome("endless", 0, st)}
    ELSE After(Eval(s.arg, st, ft),
               LAMBDA o : IF o.v # 1 THEN Goes(1, o)
                          ELSE After(RunBlock(s.body, o, ft), LAMBDA p : Turn(n - 1, s, p, ft)))

RunStmt(s, st, ft) ==
    CASE s.op = "do" -> Eval(s.arg, st, ft)
      [] s.op = "let" -> After(Eval(s.arg, st, ft),
                               LAMBDA o : Goes(1, [o EXCEPT !.temps = (s.name :> o.v) @@ @]))
      [] s.op = "return" -> After(Eval(s.arg, st, ft), LAMBDA o : {Outcome("return", o.v, o)})
      [] s.op = "while" -> Turn(Turns, s, st, ft)
      [] s.op = "for" -> Repeat(0, s, st, ft)
      [] s.op \in {"range", "each"} ->
             After(Eval(s.arg, st, ft),
                   LAMBDA o : IF o.v = 1 THEN RunBlock(s.body, o, ft) ELSE Goes(1, o))

Stmts(stmts, st, ft) ==
    IF stmts = <<>> THEN Goes(1, st)
    ELSE After(RunStmt(Head(stmts), st, ft), LAMBDA o : Stmts(Tail(stmts), o, ft))

RunBlock(b, st, ft) == After(Stmts(b.stmts, st, ft), LAMBDA o : Eval(b.tail, o, ft))

Eval(e, st, ft) ==
    CASE e.op \in {"pure", "nothing"} -> Goes(1, st)
      [] e.op = "temp" -> IF e.name \in DOMAIN st.temps THEN Goes(st.temps[e.name], st)
                          ELSE {Outcome("unset", 0, st)}
      [] e.op = "apply" -> After(Operands(e.of, st, ft),
                                 LAMBDA o : IF e.name = "" THEN Goes(1, o) ELSE Called(e.name, o, ft))
      [] e.op = "vec" -> Operands(e.of, st, ft)
      [] e.op = "copy" -> Eval(e.arg, st, ft)
      [] e.op = "block" -> RunBlock(e.body, st, ft)
      [] e.op = "lazy" -> After(Eval(e.left, st, ft),
                                LAMBDA o : IF o.v = e.when THEN Eval(e.right, o, ft) ELSE Goes(o.v, o))
      [] e.op \in {"if", "ifsome"} ->
             After(Eval(e.arg, st, ft),
                   LAMBDA o : RunBlock(IF o.v = 1 THEN e.then ELSE e.else, o, ft))
      [] e.op = "match" ->
             After(Eval(e.arg, st, ft),
                   LAMBDA o : RunBlock(SelectSeq(e.arms, LAMBDA a : o.v \in a.takes)[1].body, o, ft))
      [] e.op = "try" ->
             After(Eval(e.arg, st, ft),
                   LAMBDA o : IF o.v = Failed THEN {Outcome("return", Failed, o)} ELSE Goes(o.v, o))
      [] e.op = "catch" ->
             After(Eval(e.arg, st, ft),
                   LAMBDA o : IF o.v = Failed THEN RunBlock(e.arm, o, ft) ELSE Goes(o.v, o))
      [] e.op = "orelse" ->
             After(Eval(e.arg, st, ft), LAMBDA o : IF o.v = 1 THEN Goes(1, o) ELSE Eval(e.alt, o, ft))
      [] e.op = "comp" ->
             After(Eval(e.arg, st, ft), LAMBDA o : IF o.v = 1 THEN After(Eval(e.each, o, ft), LAMBDA p : Goes(1, p)) ELSE Goes(1, o))

NoCalls == [calls |-> <<>>, temps |-> [n \in {} |-> 0]]
Seen(stmts, ft) ==
    {[k |-> o.k, v |-> IF o.k = "return" THEN o.v ELSE 0, calls |-> o.calls] :
        o \in Stmts(stmts, NoCalls, ft)}

-----------------------------------------------------------------------------
(* Lowering.  Of an expression: the lines written before it, its text, and *)
(* the number of temporaries used so far.                                  *)

Lowered(pre, text, n) == [pre |-> pre, text |-> text, n |-> n]
\* More text of what is already lowered.
Around(l, text) == [l EXCEPT !.text = text]
AfterLines(pre, l) == [l EXCEPT !.pre = pre \o @]

\* What goes on with l, after the lines of l or with the lines of l inside.
Given(l, Rest(_)) == Rest(l)
Then(l, Rest(_)) == AfterLines(l.pre, Rest(l))

RECURSIVE Expr(_, _), ExprList(_, _), BlockBody(_, _, _), BlockStmts(_, _), Stmt(_, _)

ExprList(of, n) ==
    IF of = <<>> THEN Lowered(<<>>, <<>>, n)
    ELSE Then(Expr(Head(of), n), LAMBDA head : Then(ExprList(Tail(of), head.n), LAMBDA tail :
             Lowered(<<>>, <<head.text>> \o tail.text, tail.n)))

BlockStmts(stmts, n) ==
    IF stmts = <<>> THEN Lowered(<<>>, Nothing, n)
    ELSE Then(Stmt(Head(stmts), n), LAMBDA head : BlockStmts(Tail(stmts), head.n))

NoTarget == 0

\* Mutant: what the tail gives is dropped.
BlockBodyDropped(b, target, n) ==
    Then(BlockStmts(b.stmts, n), LAMBDA stmts : [Expr(b.tail, stmts.n) EXCEPT !.text = Nothing])

\* The lines of a block; its tail is assigned to a temporary, if there is one.
BlockBody(b, target, n) ==
    Then(BlockStmts(b.stmts, n), LAMBDA stmts : Then(Expr(b.tail, stmts.n), LAMBDA tail :
        Lowered(IF tail.text = Nothing THEN <<>>
                ELSE IF target = NoTarget THEN <<Do(tail.text)>> ELSE <<Let(target, tail.text)>>,
                Nothing, tail.n)))

Lines(l) == Block(l.pre, Nothing)

IsVoid(e) == TypeOf(e) = "void"

\* A branch that is only a tail.
IsTail(b) == b.stmts = <<>> /\ b.tail # Nothing

\* The blocks of branches: each has its own lines.
RECURSIVE Branches(_, _, _)
Branches(blocks, target, n) ==
    IF blocks = <<>> THEN Lowered(<<>>, <<>>, n)
    ELSE Given(BlockBody(Head(blocks), target, n), LAMBDA head :
         Given(Branches(Tail(blocks), target, head.n), LAMBDA tail :
             Lowered(<<>>, <<Lines(head)>> \o tail.text, tail.n)))
Prepend(lines, b) == [b EXCEPT !.stmts = lines \o @]
Result(target) == IF target = NoTarget THEN Nothing ELSE Temp(target)

\* An if with the text of its condition, as a statement.
IfStatement(cond, e, binding, n) ==
    LET target == IF IsVoid(e.then.tail) THEN NoTarget ELSE n + 1 IN
    Given(Branches(<<e.then, e.else>>, target, n + 1), LAMBDA l :
        LET else == IF target # NoTarget /\ e.else = Empty THEN Block(<<Let(target, Pure)>>, Nothing) ELSE l.text[2]
        IN Lowered(<<Do(If(cond, Prepend(binding, l.text[1]), else))>>, Result(target), l.n))

\* Branches that are only tails: their lines are written before the condition's text.
IfExpr(e, n) ==
    Then(Expr(e.arg, n), LAMBDA cond :
        IF ~(IsTail(e.then) /\ IsTail(e.else)) THEN IfStatement(cond.text, e, <<>>, cond.n)
        ELSE Then(Expr(e.then.tail, cond.n), LAMBDA then : Then(Expr(e.else.tail, then.n), LAMBDA else :
             CASE then.text = Nothing /\ else.text = Nothing -> Lowered(<<>>, Nothing, else.n)
               [] then.text # Nothing /\ else.text # Nothing ->
                      Lowered(<<>>, If(cond.text, Block(<<>>, then.text), Block(<<>>, else.text)), else.n)
               [] OTHER -> IfStatement(cond.text, e, <<>>, else.n))))

\* The text of the optional is its condition and, in the branch, its value.
IfUnwrap(e, n) ==
    Then(Expr(e.arg, n), LAMBDA opt : IfStatement(opt.text, e, <<Do(opt.text)>>, opt.n))

\* A switch: on the tag of a copy of the value, or on the text of an integer,
\* which an arm that names it writes again.
MatchExpr(e, n) ==
    Then(Expr(e.arg, n), LAMBDA value :
    LET target == IF IsVoid(e.arms[1].body.tail) THEN NoTarget ELSE value.n + 1
        copy == value.n + 2
        text == IF e.on = "tag" THEN Temp(copy) ELSE value.text
        result == IF target = NoTarget THEN <<>> ELSE <<Let(target, Pure)>>
        tag == IF e.on = "tag" THEN <<Let(copy, value.text)>> ELSE <<>>
        arm(a, b) == Arm(a.takes, FALSE, Prepend(IF a.named THEN <<Do(text)>> ELSE <<>>, b))
    IN Given(Branches([i \in DOMAIN e.arms |-> e.arms[i].body], target, copy), LAMBDA l :
           Lowered(result \o tag \o <<Do(Match(text, e.on, [i \in DOMAIN e.arms |-> arm(e.arms[i], l.text[i])]))>>,
                   Result(target), l.n)))

\* A GNU statement expression, with lines of its own.
BlockText(e, n) ==
    LET target == IF IsVoid(e.body.tail) THEN NoTarget ELSE n + 1
        zero == IF target = NoTarget THEN <<>> ELSE <<Let(target, Pure)>>
        value == IF target = NoTarget THEN Pure ELSE Temp(target)
    IN Given(BlockBody(e.body, target, n + 1), LAMBDA b :
           Lowered(<<>>, IF zero \o b.pre = <<>> THEN Nothing ELSE BlockExpr(Block(zero \o b.pre, value)), b.n))

\* C's if (t.is_err) is a catch.
TryExpr(e, n) ==
    LET inner == Expr(e.arg, n)
        t == inner.n + 1
    IN Lowered(inner.pre \o <<Let(t, inner.text), Do(Catch(Temp(t), Block(<<Return(Temp(t))>>, Nothing)))>>,
               IF IsVoid(e) THEN Nothing ELSE Temp(t), t)

\* Mutant: the result is not set where there was no error.
CatchExprUnset(e, n) ==
    LET inner == Expr(e.arg, n)
        t == inner.n + 1
        result == inner.n + 2
        arm == Expr(e.arm.tail, result)
    IN Lowered(inner.pre \o <<Let(t, inner.text),
                              Do(Catch(Temp(t), Block(Append(arm.pre, Let(result, arm.text)), Nothing)))>>,
               Temp(result), arm.n)

\* Of an arm only the tail is emitted.
CatchExpr(e, n) ==
    LET inner == Expr(e.arg, n)
        t == inner.n + 1
        result == inner.n + 2
        arm == Expr(e.arm.tail, result)
        ok == Let(result, Temp(t))
    IN Lowered(inner.pre \o <<Let(t, inner.text), ok,
                              Do(Catch(Temp(t), Block(Append(arm.pre, Let(result, arm.text)), Nothing)))>>,
               Temp(result), arm.n)

OrElseText(e, n) ==
    LET l == ExprList(<<e.arg, e.alt>>, n) IN
    Around(l, If(l.text[1], Block(<<>>, l.text[1]), Block(<<>>, l.text[2])))

CopyText(e, n) ==
    LET arg == Expr(e.arg, n) IN
    Lowered(Append(arg.pre, Let(arg.n + 1, arg.text)), Temp(arg.n + 1), arg.n + 1)

ApplyText(e, n) ==
    LET of == ExprList(e.of, n)
        texts == [i \in DOMAIN e.text |-> of.text[e.text[i]]]
    IN Around(of, Apply(e.name, texts, [i \in DOMAIN texts |-> i]))

VecText(e, n) ==
    LET of == ExprList(e.of, n) IN
    Around(of, BlockExpr(Block([i \in DOMAIN of.text |-> Do(of.text[i])], Pure)))

VecCompText(e, n) ==
    LET l == ExprList(<<e.arg, e.each>>, n)
        iter == l.n + 1
        loop == CFor(Temp(iter), Block(<<Do(l.text[2])>>, Nothing))
    IN [Around(l, BlockExpr(Block(<<Let(iter, l.text[1]), loop>>, Pure))) EXCEPT !.n = iter]

LazyText(e, n) ==
    LET l == ExprList(<<e.left, e.right>>, n) IN Around(l, Lazy(e.when, l.text[1], l.text[2]))

Expr(e, n) ==
    CASE e.op \in {"pure", "nothing", "temp"} -> Lowered(<<>>, e, n)
      [] e.op = "apply"  -> ApplyText(e, n)
      [] e.op = "lazy"   -> LazyText(e, n)
      [] e.op = "if"     -> IfExpr(e, n)
      [] e.op = "ifsome" -> IfUnwrap(e, n)
      [] e.op = "match"  -> MatchExpr(e, n)
      [] e.op = "block"  -> BlockText(e, n)
      [] e.op = "try"    -> TryExpr(e, n)
      [] e.op = "catch"  -> CatchExpr(e, n)
      [] e.op = "orelse" -> OrElseText(e, n)
      [] e.op = "copy"   -> CopyText(e, n)
      [] e.op = "vec"    -> VecText(e, n)
      [] e.op = "comp"   -> VecCompText(e, n)

\* What is returned is rendered first, and again where it is the payload of
\* an error union.
ReturnValue(e, n) ==
    Then(Expr(e, n), LAMBDA rendered :
    LET t == rendered.n + 1 IN
    CASE rendered.text = Nothing -> Lowered(<<>>, Nothing, rendered.n)
      [] rendered.text # Nothing /\ fallible /\ IsFallible(TypeOf(e)) ->
             Lowered(<<Let(t, rendered.text), Return(Temp(t))>>, Nothing, t)
      [] rendered.text # Nothing /\ fallible /\ ~IsFallible(TypeOf(e)) ->
             Then(Expr(e, rendered.n), LAMBDA again : Lowered(<<Return(again.text)>>, Nothing, again.n))
      [] OTHER -> Lowered(<<Return(rendered.text)>>, Nothing, rendered.n))

\* A loop: the lines of what is read at each turn are written before it.
Loop(s, n) ==
    Then(Expr(s.arg, n), LAMBDA head : Given(BlockBody(s.body, NoTarget, head.n), LAMBDA b :
        Lowered(<<[s EXCEPT !.arg = head.text, !.body = Lines(b)]>>, Nothing, b.n)))

\* A loop over a list: over a copy of it.
IterLoop(s, n) ==
    Then(Expr(s.arg, n), LAMBDA iter : Given(BlockBody(s.body, NoTarget, iter.n + 1), LAMBDA b :
        Lowered(<<Let(iter.n + 1, iter.text), CFor(Temp(iter.n + 1), Lines(b))>>, Nothing, b.n)))

Stmt(s, n) ==
    CASE s.op = "do" -> Then(Expr(s.arg, n), LAMBDA e :
             Lowered(IF e.text = Nothing THEN <<>> ELSE <<Do(e.text)>>, Nothing, e.n))
      [] s.op = "let" -> Then(Expr(s.arg, n), LAMBDA e : Lowered(<<Let(s.name, e.text)>>, Nothing, e.n))
      [] s.op = "return" -> ReturnValue(s.arg, n)
      [] s.op \in {"while", "range"} -> Loop(IF s.op = "range" THEN [s EXCEPT !.op = "for"] ELSE s, n)
      [] s.op = "each" -> IterLoop(s, n)

-----------------------------------------------------------------------------
(* Where lowering keeps the meaning: what writes lines is evaluated where  *)
(* its statement begins, and what is written twice calls nothing.          *)

RECURSIVE Hoists(_), Quiet(_), Faithful(_), FaithfulStmts(_)

Parts(e) ==
    CASE e.op \in {"apply", "vec"} -> e.of
      [] e.op = "lazy" -> <<e.left, e.right>>
      [] e.op = "orelse" -> <<e.arg, e.alt>>
      [] e.op = "comp" -> <<e.arg, e.each>>
      [] e.op \in {"pure", "nothing", "block"} -> <<>>
      [] OTHER -> <<e.arg>>

\* Lines are written before the text.
Hoists(e) ==
    \/ e.op \in {"try", "catch", "copy", "match", "ifsome"}
    \/ e.op = "if" /\ ~(IsTail(e.then) /\ IsTail(e.else) /\ ~Hoists(e.then.tail) /\ ~Hoists(e.else.tail))
    \/ \E i \in DOMAIN Parts(e) : Hoists(Parts(e)[i])

\* Nothing is called.
Quiet(e) ==
    /\ \/ e.op \in {"pure", "nothing", "vec", "lazy"}
       \/ e.op = "apply" /\ e.name = ""
    /\ \A i \in DOMAIN Parts(e) : Quiet(Parts(e)[i])

FaithfulBlock(b) == FaithfulStmts(b.stmts) /\ Faithful(b.tail)

\* One operand that hoists does so before the others, and each is read once.
InOrder(of) == (\E i \in DOMAIN of : Hoists(of[i])) => \A i, j \in DOMAIN of : i = j \/ Quiet(of[i]) \/ Quiet(of[j])

Faithful(e) ==
    /\ \A i \in DOMAIN Parts(e) : Faithful(Parts(e)[i])
    /\ CASE e.op = "apply" ->
               /\ InOrder(e.of)
               /\ \A i, j \in DOMAIN e.text : i # j /\ e.text[i] = e.text[j] => Quiet(e.of[e.text[i]])
         [] e.op = "vec" -> InOrder(e.of)
         [] e.op = "lazy" -> ~Hoists(e.right)
         [] e.op = "if" ->
               /\ FaithfulBlock(e.then) /\ FaithfulBlock(e.else)
               /\ IsTail(e.then) /\ IsTail(e.else) => ~Hoists(e.then.tail) /\ ~Hoists(e.else.tail)
         [] e.op = "ifsome" -> Quiet(e.arg) /\ FaithfulBlock(e.then) /\ FaithfulBlock(e.else)
         [] e.op = "match" ->
               /\ \A i \in DOMAIN e.arms : FaithfulBlock(e.arms[i].body)
               /\ e.on = "int" /\ (\E i \in DOMAIN e.arms : e.arms[i].named) => Quiet(e.arg)
         [] e.op = "catch" -> e.arm.stmts = <<>> /\ Faithful(e.arm.tail)
         [] e.op = "orelse" -> Quiet(e.arg) /\ ~Hoists(e.alt)
         [] e.op = "comp" -> ~Hoists(e.each)
         [] e.op = "block" -> FaithfulBlock(e.body)
         [] OTHER -> TRUE

FaithfulStmt(s) ==
    /\ Faithful(s.arg)
    /\ s.op = "return" => ~(fallible /\ ~IsFallible(TypeOf(s.arg)) /\ Hoists(s.arg))
    /\ s.op = "while" => ~Hoists(s.arg)
    /\ s.op = "range" => Quiet(s.arg)
    /\ s.op \in {"while", "range", "each"} => FaithfulBlock(s.body)

FaithfulStmts(stmts) == \A i \in DOMAIN stmts : FaithfulStmt(stmts[i])

-----------------------------------------------------------------------------
Init ==
    /\ body = <<>> /\ fallible = FALSE
    /\ phase = "write"
    /\ code = <<>> /\ inMesa = {} /\ inC = {}

Write ==
    /\ phase = "write"
    /\ \E p \in Programs : body' = p.body /\ fallible' = p.fallible
    /\ phase' = "compile"
    /\ UNCHANGED <<code, inMesa, inC>>

Compile ==
    /\ phase = "compile"
    /\ code' = BlockStmts(body, 0).pre
    /\ phase' = "run"
    /\ UNCHANGED <<body, fallible, inMesa, inC>>

Run ==
    /\ phase = "run"
    /\ \E ft \in FirstTrue : inMesa' = Seen(body, ft) /\ inC' = Seen(code, ft)
    /\ phase' = "done"
    /\ UNCHANGED <<body, fallible, code>>

Next == Write \/ Compile \/ Run
Spec == Init /\ [][Next]_vars

-----------------------------------------------------------------------------
\* The variables have their types; no run reads a temporary that is not set.
TypeOK ==
    /\ fallible \in BOOLEAN
    /\ phase \in {"write", "compile", "run", "done"}
    /\ \A o \in inMesa \cup inC : o.k \in {"go", "return", "endless"} /\ o.v \in {Failed, 0, 1}

\* The C makes the calls of the function in an order the function may make
\* them, each as often, and returns what it returns.
AsWritten == inC \subseteq inMesa

\* So it does wherever no line moves past a condition and nothing that calls
\* is written twice.
FaithfulAsWritten == phase = "done" /\ FaithfulStmts(body) => AsWritten

=============================================================================
