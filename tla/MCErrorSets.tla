----------------------------- MODULE MCErrorSets -----------------------------
(* Two functions that call each other and a third, and the third.           *)
EXTENDS ErrorSets

MCOrder == <<"f", "g", "h">>
MCErrors == {"A", "B"}
MCNames == {"x"}

Val == [op |-> "val"]
Err(s) == [op |-> "error", of |-> s]
Call(g) == [op |-> "call", fun |-> g]
Try(g) == [op |-> "try", fun |-> g]
Expr(e) == [op |-> "expr", arg |-> e]
Return(e) == [op |-> "return", arg |-> e]
Let(e) == [op |-> "let", name |-> "x", arg |-> e]
Body(stmts, tail) == [stmts |-> stmts, tail |-> tail, absent |-> FALSE]
Nothing == [op |-> "none"]
If(s) == Expr([op |-> "if", then |-> Body(<<s>>, Nothing), else |-> Body(<<>>, Nothing)])
While(s) == [op |-> "while", arg |-> Val, body |-> Body(<<s>>, Nothing)]
With(s, cleanup, h) == Expr([op |-> "with", cleanup |-> cleanup, body |-> Body(<<s>>, Nothing), handle |-> h])
Var(n) == [op |-> "var", name |-> n]

Fun(kind, set, body, handle) == [ret |-> kind, set |-> set, body |-> body, handle |-> handle]
Open(body, handle) == Fun("inferred", {}, body, handle)

Steps(g) == {Expr(Try(g)), If(Return(Call(g))), Expr([op |-> "catch", fun |-> g]),
             Let(Try(g)), While(Return(Err("B")))}
Handles(g) == {Body(<<Return(Var("e"))>>, Nothing), Body(<<Return(Err("B"))>>, Nothing),
               Body(<<Expr(Try(g)), Return(Val)>>, Nothing), Body(<<Return(Val)>>, Nothing)}
WithHandles(g) == {Body(<<Return(Var("e"))>>, Nothing), Body(<<Expr(Try(g))>>, Nothing), Body(<<>>, Nothing)}
Withs(g) == {With(s, c, h) : s \in {Expr(Try(g))}, c \in BOOLEAN, h \in WithHandles("h") \cup {NoBlock}}
BodiesCalling(gs) == {Body(<<s>>, Val) : s \in UNION {Steps(g) \cup Withs(g) : g \in gs}}
              \cup {Body(<<Let(Err("A")), If(Return(Var("x"))), s>>, Val) : s \in UNION {Steps(g) : g \in gs}}

Callers(gs) ==
    {Open(b, NoBlock) : b \in BodiesCalling(gs)}
    \cup {Fun("declared", {"B"}, b, NoBlock) : b \in BodiesCalling(gs)}
    \cup {Open(b, h) : b \in {Body(<<s>>, Val) : s \in UNION {Steps(g) : g \in gs}}, h \in UNION {Handles(g) : g \in gs}}
Voids == {Fun("void", {}, Body(<<s>>, Nothing), h) : s \in Withs("g"), h \in {NoBlock, Body(<<Expr(Try("h"))>>, Nothing), Body(<<>>, Nothing)}}

Leaves == {Fun("declared", {"A"}, Body(<<If(Return(Err("A")))>>, Val), NoBlock),
           Open(Body(<<If(Return(Err("A"))), If(Return(Err("B")))>>, Val), NoBlock),
           Open(Body(<<>>, Val), NoBlock)}

MCDefinitions == ("f" :> Callers({"g"}) \cup Voids) @@ ("g" :> Callers({"f", "h"})) @@ ("h" :> Leaves)
=============================================================================
