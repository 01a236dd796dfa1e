----------------------------- MODULE MCRegions -----------------------------
(* Functions with a variable x and up to two nested withs.                 *)
EXTENDS Regions

MCAllocators == {"a", "b"}

Only(e) == Block(<<>>, e)
Bound(x, e) == BlockExpr(Block(<<Let(x, e)>>, Var(x)))

Values(xs, on) == {Var(x) : x \in xs} \cup {Vec} \cup {On(c) : c \in on}

\* An expression of the values given.
Over(vs) ==
    vs \cup {Part(v) : v \in vs} \cup {Sum(v) : v \in vs} \cup {Call(v) : v \in vs}
    \cup {Bound("t", v) : v \in vs} \cup {If(Only(u), Only(v)) : u \in vs, v \in vs}

NoTail == {Nowhere}

\* A with in a with: a variable z, one statement, a result.
Inner(vs) ==
    {With(in, cleanup, Block(<<Let("z", e), Assign(y, f)>>, tail)) :
        in \in {"a", "b", "file"}, cleanup \in BOOLEAN, e \in {Vec, Var("y")},
        y \in {"x", "y", "z"}, f \in vs \cup {Var("z")}, tail \in {Nowhere, Var("z"), Sum(Var("z"))}}

InA == Values({"x", "y"}, {"a"})

\* The statements in a with of a.
Middle ==
    {Assign(y, e) : y \in {"x", "y"}, e \in Over(InA)}
    \cup {Do(w) : w \in Inner(InA)} \cup {Let("n", w) : w \in {v \in Inner(InA) : v.body.tail # Nowhere}}
    \cup {Do(If(Block(<<Assign("y", u)>>, Nowhere), Block(<<Assign("y", v)>>, Nowhere))) : u, v \in InA}

Outer(cleanup, init, stmts, tail) == With("a", cleanup, Block(<<Let("y", init)>> \o stmts, tail))

Function(stmts, tail) == Block(<<Let("x", Vec)>> \o stmts, tail)

Results == {Nowhere, Var("x"), Var("y"), Vec, Sum(Var("y")), Part(Var("y"))}

\* Straight-line functions whose variables are assigned again and again, and
\* that may return: x outside the withs, y in the outer, n in the last of them.
Assignments(xs, vs) == {Assign(u, e) : u \in xs, e \in vs}
Rewritten ==
    LET vs == {Var(v) : v \in {"x", "y", "n"}} \cup {Vec}
        all == Assignments({"x", "y", "n"}, vs)
    IN
    {Function(<<Do(Outer(TRUE, Vec, <<Let("n", Var("x")), r, s, t>>, Nowhere))>>, Vec) :
        r, s \in all, t \in all \cup {Return(e) : e \in vs}}
    \cup {Function(<<Do(Outer(TRUE, Vec, <<r, Do(With("b", TRUE, Block(<<Let("n", Vec), s, t>>, Nowhere)))>>, Nowhere))>>, Nowhere) :
             r \in Assignments({"x", "y"}, {Var("x"), Var("y")}), s, t \in all}

MCPrograms ==
    {Function(<<Do(Outer(TRUE, init, <<m>>, Nowhere))>>, Sum(Var("x"))) : init \in {Vec, Var("x")}, m \in Middle}
    \cup {Function(<<Do(Outer(TRUE, Vec, <<m, Assign("x", Var("y"))>>, Nowhere))>>, Sum(Var("x"))) : m \in Middle}
    \cup {Function(<<>>, Outer(TRUE, Vec, <<m>>, Nowhere)) : m \in Middle}
    \cup {Function(<<Let("r", Outer(cleanup, init, <<>>, tail))>>, Nowhere) :
             cleanup \in BOOLEAN, init \in Over({Vec, Var("x")}), tail \in Results \ {Nowhere}}
    \cup {Function(<<Return(Outer(cleanup, init, <<Assign("x", Vec)>>, tail))>>, Nowhere) :
             cleanup \in BOOLEAN, init \in {Vec, Var("x")}, tail \in Results \ {Nowhere}}
    \cup {Function(<<Do(Outer(TRUE, Vec, <<Return(e)>>, Nowhere))>>, Vec) :
             e \in Over(InA) \cup {With("b", FALSE, Only(Var("y")))}}
    \cup {Function(<<Do(Outer(TRUE, Var("x"), <<Loop(Block(<<Assign(u, e), Assign(v, f)>>, Nowhere))>>, Nowhere))>>, Nowhere) :
             u, v \in {"x", "y"}, e, f \in InA}
    \cup Rewritten

Joined ==
    {Function(<<Do(Outer(TRUE, Vec, <<Do(With("b", TRUE, Block(<<Let("z", Vec)>> \o s, Nowhere)))>>, Nowhere))>>, Nowhere) :
        s \in {<<Assign("x", If(Only(Var("y")), Only(Var("z"))))>>, <<Assign("x", Var("z"))>>, <<Assign("y", Var("x"))>>}}
=============================================================================
