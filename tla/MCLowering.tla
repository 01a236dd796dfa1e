---------------------------- MODULE MCLowering ----------------------------
(* Functions of one or two statements, the first of them an expression of  *)
(* depth two.  c and g give values, v none, f and p can fail.              *)
EXTENDS Lowering

MCKinds == ("c" :> "int") @@ ("g" :> "int") @@ ("v" :> "void") @@ ("f" :> "int!") @@ ("p" :> "void!")
MCFirstTrue == [{"c"} -> {0, 1, 2}] \X [{"g", "f", "p"} -> {0, 1}]
MCAnswers == {a[1] @@ a[2] @@ ("v" :> 0) : a \in MCFirstTrue}

C == Call("c", <<>>)
G == Call("g", <<>>)
V == Call("v", <<>>)
TryF == Try(Call("f", <<>>))
TryP == Try(Call("p", <<>>))

Tail1(e) == Block(<<>>, e)
Values == {Pure, G, TryF}
Atoms == {G, TryF}
Voids == {V, TryP}

Bodies(tails) == {Tail1(t) : t \in tails} \cup {Block(<<Do(V)>>, t) : t \in tails}

\* An expression of the values and conditions given.
Over(values, conds) ==
    {Binary(a, b) : a \in values, b \in values}
    \cup {Call("g", <<a, b>>) : a \in values, b \in {Pure, G}}
    \cup {Unary(a) : a \in values} \cup {Index(Pure, a) : a \in values} \cup {Literal(<<a, G>>) : a \in values}
    \cup {Field(a) : a \in values} \cup {ErrorField(a) : a \in values}
    \cup {MethodCall("g", a, <<b>>) : a \in values, b \in {Pure, G}}
    \cup {AnyCall("g", a, <<b>>) : a \in values, b \in {Pure, G}}
    \cup {UncertainSum(a, Pure) : a \in values} \cup {Interpolation(a) : a \in values}
    \cup {Copy(a) : a \in values}
    \cup {Lazy(on, a, b) : on \in {0, 1}, a \in conds, b \in values}
    \cup {OrElse(a, b) : a \in conds, b \in values}
    \cup {VecLit(<<a, b>>) : a \in values, b \in {Pure, G}}
    \cup {VecComp(a, b) : a \in conds, b \in values}
    \cup {If(a, t, e) : a \in conds, t \in Bodies(values), e \in Bodies(values)}
    \cup {IfSome(a, t, e) : a \in conds \cup {Pure}, t \in Bodies(values), e \in Bodies({Pure})}
    \cup {Match(a, on, <<Arm({1}, FALSE, t), Arm({0, 1}, named, u)>>) :
             a \in conds, on \in {"int", "tag"}, named \in BOOLEAN, t \in Bodies(values), u \in Bodies({Pure})}
    \cup {Catch(Call("f", <<>>), b) : b \in Bodies(values)}
    \cup {BlockExpr(b) : b \in Bodies(values)}

\* Statements without a value.
Effects(conds) ==
    {If(a, t, e) : a \in conds, t \in Bodies(Voids), e \in Bodies(Voids) \cup {Empty}}
    \cup {IfSome(a, t, e) : a \in conds, t \in Bodies(Voids), e \in Bodies({V}) \cup {Empty}}
    \cup {Match(a, on, <<Arm({1}, FALSE, t), Arm({0, 1}, FALSE, u)>>) : a \in conds, on \in {"int", "tag"}, t \in Bodies(Voids), u \in Bodies({V})}
    \cup {Println(a) : a \in Values} \cup {BlockExpr(b) : b \in Bodies(Voids)}

Once == Over(Values, {C})
Twice == Over({Pure} \cup {If(C, t, e) : t \in Bodies({G}), e \in Bodies({TryF})} \cup {BlockExpr(Tail1(TryF)), Catch(Call("f", <<>>), Tail1(G))},
              {Lazy(1, C, G), Lazy(0, C, TryF)})

Nested == {If(C, t, e) : t \in Bodies({V, If(G, Block(<<Do(V)>>, V), Empty)}),
                         e \in {Tail1(x) : x \in Effects({G})} \cup {Empty}}

Statements ==
    {Do(e) : e \in Effects({C, TryF}) \cup Nested}
    \cup {Let(NoTarget, e) : e \in Once \cup Twice}
    \cup {Return(e) : e \in Once \cup Twice \cup {Call("f", <<>>), TryF}}
    \cup {While(C, b) : b \in Bodies({V, TryP})} \cup {While(Binary(TryF, C), Tail1(V)), While(Lazy(1, C, TryF), Tail1(V))}
    \cup {ForRange(e, b) : e \in Values, b \in Bodies({V, TryP})}
    \cup {ForIter(e, b) : e \in Values, b \in Bodies({V, TryP})}
    \cup {Assign(a, e) : a \in {Index(Pure, G), Pure}, e \in Values}
    \cup {PowerAssign(a, e) : a \in {Index(Pure, G), Pure}, e \in Values}

Function(fails, stmts) == [fallible |-> fails, body |-> stmts]
NoTry == {Pure, G}
MCPrograms ==
    {Function(TRUE, <<s>>) : s \in Statements}
    \cup {Function(TRUE, <<Do(V), s, Return(G)>>) : s \in {Let(NoTarget, e) : e \in Once}}
    \cup {Function(FALSE, <<Return(e)>>) : e \in Over(NoTry, {C})}

\* else if: a chain of effects.
ElseIf ==
    {Function(FALSE, <<Do(If(C, Tail1(V), Tail1(e)))>>) : e \in {If(G, Block(<<Do(V)>>, V), Block(<<>>, V)), V}}
    \cup {Function(FALSE, <<Do(If(C, t, e))>>) : t \in Bodies({V}), e \in Bodies({V})}
=============================================================================
