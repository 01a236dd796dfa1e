------------------------------- MODULE Parser -------------------------------
(***************************************************************************)
(* The recursive-descent parser of src/parser.py for expressions, types,   *)
(* patterns and statements.  Each operator reads the text t from the token *)
(* at p on and gives the node read and the position after it, or the       *)
(* position of the token that is refused.  A node is a kind, a detail and  *)
(* the sequence of its children; positions in the source are left out.  A  *)
(* text is its tokens and, for what the routines that call each other      *)
(* read, the function of what is read where.                               *)
(***************************************************************************)
EXTENDS SourceTokens, TLC

Node(k, s, c) == [k |-> k, s |-> s, c |-> c]
Leaf(k) == Node(k, "", <<>>)
Ok(n, p) == [ok |-> TRUE, n |-> n, p |-> p]
Fail(p) == [ok |-> FALSE, n |-> Leaf("error"), p |-> p]
Then(r, F(_)) == IF r.ok THEN F(r) ELSE r

\* _peek, _expect, _eat and _eat_newlines
Size(t) == Len(t.tokens)
K(t, p) == t.tokens[IF p > Size(t) THEN Size(t) ELSE p].k
Expect(t, p, kinds) == IF K(t, p) \in kinds THEN Ok(Leaf(K(t, p)), p + 1) ELSE Fail(p)
Eat(t, p, kinds) == IF K(t, p) \in kinds THEN p + 1 ELSE p
EatNewlines(t, p) ==
    IF K(t, p) \notin Separators THEN p
    ELSE CHOOSE q \in p..Size(t) : K(t, q) \notin Separators /\ \A r \in p..q - 1 : K(t, r) \in Separators

\* The parsing routines call each other here.
Parse(what, t, p) == t.read[what, p]

\* item (',' item)*
RECURSIVE Items(_, _, _, _)
Items(what, t, p, acc) ==
    Then(Parse(what, t, p), LAMBDA e :
        LET all == Append(acc, e.n) IN
        IF K(t, e.p) = "," THEN Items(what, t, e.p + 1, all) ELSE Ok(Node("list", "", all), e.p))

\* (item (',' item)*)? close, where some lists may have a comma at the end and
\* the fields of a tuple literal stand between line breaks.
RECURSIVE Listed(_, _, _, _, _)
Listed(what, t, q, close, acc) ==
    LET lines == what = "field"
        p == IF lines THEN EatNewlines(t, q) ELSE q
        comma == IF acc = <<>> THEN Ok(Leaf(","), p) ELSE Expect(t, p, {","})
        trailing == what \in {"arg", "param", "element", "field", "typeField"}
    IN IF K(t, p) \in {close, "eof"}
       THEN Then(Expect(t, p, {close}), LAMBDA c : Ok(Node("list", "", acc), c.p))
       ELSE Then(comma, LAMBDA c :
            LET s == IF lines THEN EatNewlines(t, c.p) ELSE c.p IN
            IF trailing /\ acc # <<>> /\ K(t, s) = close THEN Ok(Node("list", "", acc), s + 1)
            ELSE Then(Parse(what, t, s), LAMBDA e :
                     Listed(what, t, e.p, close, Append(acc, e.n))))

\* IDENT ('.' IDENT)*
RECURSIVE DottedName(_, _)
DottedName(t, p) ==
    Then(Expect(t, p, Idents), LAMBDA i :
        IF K(t, i.p) = "." THEN DottedName(t, i.p + 1) ELSE Ok(Leaf("name"), i.p))

\* ('|' '*'? IDENT '|')?, and the names that catch and handle bind
Unwrap(t, p) ==
    IF K(t, p) # "|" THEN Ok(Leaf("none"), p)
    ELSE Then(Expect(t, Eat(t, p + 1, {"*"}), Idents), LAMBDA i :
         Then(Expect(t, i.p, {"|"}), LAMBDA e : Ok(Leaf("unwrap"), e.p)))
Binding(t, p) ==
    IF K(t, p) # "|" THEN Ok(Leaf("none"), p)
    ELSE Then(Expect(t, p + 1, Idents), LAMBDA i :
         Then(Expect(t, i.p, {"|"}), LAMBDA e : Ok(Leaf("bind"), e.p)))

-----------------------------------------------------------------------------
(* Types.                                                                  *)

PrimTypes == {"i32", "void"}

\* TypeBase; a token that starts no type is left to the checker to infer.
FunType(t, p, abi) ==
    Then(Expect(t, p, {"("}), LAMBDA o : Then(Listed("type", t, o.p, ")", <<>>), LAMBDA l :
    Then(Parse("type", t, l.p), LAMBDA r : Ok(Node("tyFun", abi, Append(l.n.c, r.n)), r.p))))

Sized(t, p, kind) ==
    LET e == Parse("type", t, p) IN
    Then(e, LAMBDA y : Then(Parse("expr", t, Eat(t, y.p, Separators)), LAMBDA n :
    Then(Expect(t, n.p, {"]"}), LAMBDA c : Ok(Node(kind, "", <<y.n, n.n>>), c.p))))

AbiFun(t, p) == <<K(t, p + 1), K(t, p + 3), K(t, p + 4)>> = <<".", "]", "fun">> /\ K(t, p + 2) \in Idents

Generic(t, p, kind) ==
    Then(Expect(t, p, {"["}), LAMBDA o : Then(Items("type", t, o.p, <<>>), LAMBDA l :
    Then(Expect(t, l.p, {"]"}), LAMBDA c : Ok(Node(kind, "", l.n.c), c.p))))

\* vec[T; n] and mat[T; r, c]
VecType(t, p) ==
    Then(Expect(t, p + 1, {"["}), LAMBDA o : Then(Parse("type", t, o.p), LAMBDA y :
    LET n == IF K(t, y.p) # ";" THEN Ok(Node("list", "", <<>>), y.p)
             ELSE Then(Parse("expr", t, y.p + 1), LAMBDA e :
                  IF K(t, p) = "mat" /\ K(t, e.p) = ","
                  THEN Then(Parse("expr", t, e.p + 1), LAMBDA c : Ok(Node("list", "", <<e.n, c.n>>), c.p))
                  ELSE Ok(Node("list", "", <<e.n>>), e.p))
    IN Then(n, LAMBDA s : Then(Expect(t, s.p, {"]"}), LAMBDA c :
           Ok(Node("tyVec", K(t, p), <<y.n>> \o s.n.c), c.p)))))

TypeBase(t, p) ==
    LET k == K(t, p)
        wrap(kind, q) == Then(Parse("type", t, q), LAMBDA y : Ok(Node(kind, "", <<y.n>>), y.p))
    IN CASE k = "?" -> wrap("tyOptional", p + 1)
         [] k = "*" /\ K(t, p + 1) = "any" ->
                Then(DottedName(t, p + 2), LAMBDA d : Ok(Node("tyPointer", "", <<Leaf("tyAny")>>), d.p))
         [] k = "*" /\ K(t, p + 1) # "any" -> wrap("tyPointer", p + 1)
         [] k = "any" -> Then(DottedName(t, p + 1), LAMBDA d : Ok(Leaf("tyAny"), d.p))
         [] k = "[" /\ AbiFun(t, p) -> FunType(t, p + 5, "abi")
         [] k = "[" /\ K(t, p + 1) = "]" -> wrap("tySlice", p + 2)
         [] k = "[" /\ ~AbiFun(t, p) /\ K(t, p + 1) # "]" -> Sized(t, p + 1, "tyVec")
         [] k \in {"vec", "mat"} -> VecType(t, p)
         [] k = "." -> Then(Expect(t, p + 1, {"{"}), LAMBDA o :
                       Then(Listed("typeField", t, o.p, "}", <<>>), LAMBDA l :
                           Ok(Node("tyTuple", "", l.n.c), l.p)))
         [] k = "fun" -> FunType(t, p + 1, "")
         [] k = "@" -> Then(Expect(t, p + 1, Idents), LAMBDA i : Ok(Leaf("tyNamed"), i.p))
         [] k \in PrimTypes -> Ok(Leaf(k), p + 1)
         [] k \in Idents \ {"vec", "mat"} ->
                Then(DottedName(t, p), LAMBDA d :
                    IF K(t, d.p) = "[" THEN Generic(t, d.p, "tyGeneric") ELSE Ok(Leaf("tyNamed"), d.p))
         [] OTHER -> Ok(Leaf("tyInfer"), p)

\* TypeBase ('|' TypeBase)*
RECURSIVE ErrorSets(_, _)
ErrorSets(t, ty) ==
    IF K(t, ty.p) # "|" THEN ty
    ELSE Then(TypeBase(t, ty.p + 1), LAMBDA r :
             ErrorSets(t, Ok(Node("tyErrors", "",
                 IF ty.n.k = "tyErrors" THEN Append(ty.n.c, r.n) ELSE <<ty.n, r.n>>), r.p)))

Type(t, p) ==
    IF K(t, p) = "!" THEN Then(Parse("type", t, p + 1), LAMBDA y : Ok(Node("tyErrorUnion", "", <<y.n>>), y.p))
    ELSE Then(TypeBase(t, p), LAMBDA b : Then(ErrorSets(t, b), LAMBDA e :
         CASE K(t, e.p) = "!" ->
                  Then(Parse("type", t, e.p + 1), LAMBDA y : Ok(Node("tyErrorUnion", "set", <<e.n, y.n>>), y.p))
           [] K(t, e.p) = "unit" -> Ok(Node("tyUnitful", "", <<e.n>>), e.p + 1)
           [] OTHER -> e))

-----------------------------------------------------------------------------
(* Expressions.  The flag a says whether orelse and catch may follow.      *)

\* _OPER_TABLE: precedence, whether comparisons chain, and the right-associative.
Prec == "or" :> 10 @@ "and" :> 20 @@ "==" :> 30 @@ ".==" :> 30 @@ "<" :> 40 @@ ".<" :> 40
        @@ "+" :> 50 @@ "-" :> 50 @@ "*" :> 60 @@ "^" :> 70
Chainable == {"==", "<"}
RightAssoc == {"^"}

RECURSIVE Precedence(_, _, _, _)
RECURSIVE Prefix(_, _, _)
RECURSIVE Climb(_, _, _, _)
RECURSIVE Terms(_, _, _, _, _, _)
RECURSIVE Postfix(_, _, _)
RECURSIVE BlockItems(_, _, _)
RECURSIVE ArmsFrom(_, _, _)

\* a < b < c becomes (a < b) and (b < c).
Chained(terms, ops) ==
    LET cmp == [i \in DOMAIN ops |-> Node("bin", ops[i], <<terms[i], terms[i + 1]>>)]
    IN FoldLeft(LAMBDA x, y : Node("bin", "and", <<x, y>>), Head(cmp), Tail(cmp))

Terms(t, terms, ops, p, prec, a) ==
    IF K(t, p) \in Chainable /\ Prec[K(t, p)] = prec
    THEN Then(Precedence(t, p + 1, prec + 1, a), LAMBDA r :
             Terms(t, Append(terms, r.n), Append(ops, K(t, p)), r.p, prec, a))
    ELSE Ok(Chained(terms, ops), p)

\* Mutant: a right-associative operator does not take itself on its right.
NextMinLeft(op) == Prec[op] + 1

\* The weakest operator that the right operand of op takes.
NextMin(op) == IF op \in RightAssoc THEN Prec[op] ELSE Prec[op] + 1

Climb(t, l, min, a) ==
    LET op == K(t, l.p) IN
    IF op \notin DOMAIN Prec THEN l
    ELSE IF Prec[op] < min THEN l
    ELSE IF op \in Chainable
    THEN Then(Terms(t, <<l.n>>, <<>>, l.p, Prec[op], a), LAMBDA c : Climb(t, c, min, a))
    ELSE Then(Precedence(t, l.p + 1, NextMin(op), a), LAMBDA r :
             Climb(t, Ok(Node("bin", op, <<l.n, r.n>>), r.p), min, a))

Precedence(t, p, min, a) == Then(Prefix(t, p, a), LAMBDA l : Climb(t, l, min, a))

PrefixOps == {"-", "!", "*", "&", "comptime", "try", "esc"}
Args(t, p) == Then(Expect(t, p, {"("}), LAMBDA o : Listed("arg", t, o.p, ")", <<>>))

\* '@' IDENT ArgList?, where the name may be a keyword
Keywords == {"any", "break", "catch", "comptime", "continue", "def", "defer", "else", "error", "esc",
             "export", "for", "from", "fun", "handle", "if", "import", "in", "inline", "interface", "let",
             "match", "opaque", "or", "and", "orelse", "pkg", "pub", "return", "struct", "test", "try",
             "type", "union", "var", "while", "with", "as"}
Intrinsic(t, p) ==
    Then(Expect(t, p + 1, Idents \cup Keywords), LAMBDA i :
        IF K(t, i.p) # "(" THEN Ok(Node("intrinsic", i.n.k, <<>>), i.p)
        ELSE Then(Args(t, i.p), LAMBDA l : Ok(Node("intrinsic", i.n.k, l.n.c), l.p)))

Prefix(t, p, a) ==
    CASE K(t, p) \in PrefixOps ->
             Then(Prefix(t, p + 1, a), LAMBDA e : Ok(Node("unary", K(t, p), <<e.n>>), e.p))
      [] K(t, p) = "@" -> Then(Intrinsic(t, p), LAMBDA e : Postfix(t, e, a))
      [] OTHER -> Then(Parse("primary", t, p), LAMBDA e : Postfix(t, e, a))

\* Pattern '=>' (Block / Expr) ','?, for match and catch
Arm(t, p) ==
    Then(Parse("pattern", t, p), LAMBDA m :
    Then(Expect(t, EatNewlines(t, m.p), {"=>"}), LAMBDA e :
    LET q == EatNewlines(t, e.p)
        body == IF K(t, q) = "{" THEN Parse("block", t, q)
                ELSE Then(Parse("expr", t, q), LAMBDA x : Ok(Node("block", "tail", <<x.n>>), x.p))
    IN Then(body, LAMBDA b :
           Ok(Node("arm", "", <<m.n, b.n>>), EatNewlines(t, Eat(t, b.p, {","}))))))

ArmsFrom(t, p, acc) ==
    IF K(t, p) \in {"}", "eof"}
    THEN Then(Expect(t, p, {"}"}), LAMBDA c : Ok(Node("list", "", acc), c.p))
    ELSE Then(Arm(t, p), LAMBDA m : ArmsFrom(t, m.p, Append(acc, m.n)))
Arms(t, p) == Then(Expect(t, p, {"{"}), LAMBDA o : ArmsFrom(t, EatNewlines(t, o.p), <<>>))

Postfix(t, b, a) ==
    LET k == K(t, b.p)
        on(r, kind, detail) == Then(r, LAMBDA e :
            Postfix(t, Ok(Node(kind, detail, <<b.n>> \o (IF e.n.k = "list" THEN e.n.c ELSE <<e.n>>)), e.p), a))
    IN CASE k \in {"?.", "."} ->
                Then(Expect(t, b.p + 1, Idents), LAMBDA i : Postfix(t, Ok(Node("field", k, <<b.n>>), i.p), a))
         [] k = "(" -> on(Args(t, b.p), "call", "")
         [] k = "[" -> on(Then(Items("expr", t, b.p + 1, <<>>), LAMBDA l :
                          Then(Expect(t, l.p, {"]"}), LAMBDA c : Ok(l.n, c.p))), "index", "")
         [] k = "orelse" /\ a -> on(Parse("expr", t, b.p + 1), "orelse", "")
         [] k = "catch" /\ a ->
                Then(Binding(t, b.p + 1), LAMBDA i : on(Arms(t, i.p), "catch", i.n.k))
         [] k = "with" -> on(Prefix(t, b.p + 1, a), "withAlloc", "")
         [] OTHER -> b

\* value +- error: a unit of the error is the unit of the whole.
PlusMinus(t, e) ==
    IF K(t, e.p) # "+-" THEN e
    ELSE Then(Parse("operand", t, e.p + 1), LAMBDA r :
        IF r.n.k = "unitLit" /\ r.n.c # <<>>
        THEN Ok(Node("unitLit", "", <<Node("uncertain", "", <<e.n, r.n.c[1]>>)>>), r.p)
        ELSE Ok(Node("uncertain", "", <<e.n, r.n>>), r.p))

UnitSuffix(t, e) ==
    IF K(t, e.p) = "unit" THEN Ok(Node("unitLit", "", <<e.n>>), e.p + 1) ELSE e

\* expr if cond, on one line, is none otherwise; orelse and catch follow it.
Compound == {"if", "blockExpr", "match", "withExpr"}
IfNode(cond, then, else) == Node("if", "", <<cond, then, else>>)

\* The block of one expression, for a branch that is none.
TailBlock(e) == Node("block", "tail", <<e>>)

RECURSIVE IfSuffixes(_, _)
IfSuffixes(t, r) ==
    CASE K(t, r.p) = "orelse" ->
             Then(Parse("expr", t, r.p + 1), LAMBDA e : IfSuffixes(t, Ok(Node("orelse", "", <<r.n, e.n>>), e.p)))
      [] K(t, r.p) = "catch" ->
             Then(Binding(t, r.p + 1), LAMBDA i : Then(Parse("block", t, i.p), LAMBDA h :
                 IfSuffixes(t, Ok(Node("catch", i.n.k, <<r.n, h.n>>), h.p))))
      [] OTHER -> r

\* The condition leaves an orelse or catch after it to the whole.
Cond(t, p) == Parse("cond", t, p)

SuffixIf(t, e) ==
    IF /\ K(t, e.p) = "if" /\ ~t.tokens[e.p].nl
       /\ K(t, e.p + 1) \notin {"{"} \cup Separators
       /\ e.n.k \notin Compound
    THEN Then(Cond(t, e.p + 1), LAMBDA c :
             IfSuffixes(t, Ok(IfNode(c.n, TailBlock(e.n), TailBlock(Leaf("lit"))), c.p)))
    ELSE e

Expr(t, p) ==
    Then(Parse("operand", t, p), LAMBDA e : Then(PlusMinus(t, e), LAMBDA u :
        SuffixIf(t, UnitSuffix(t, u))))

\* IDENT '=' Expr / Expr, and IDENT ':' Expr in a tuple
Arg(t, p, sign) ==
    LET named == K(t, p) \in Idents /\ K(t, p + 1) = sign IN
    Then(Parse("expr", t, IF named THEN p + 2 ELSE p), LAMBDA e :
        Ok(IF named THEN Node("named", "", <<e.n>>) ELSE e.n, e.p))

TypeField(t, p) == Parse("type", t, IF K(t, p) \in Idents /\ K(t, p + 1) = ":" THEN p + 2 ELSE p)

\* 'self' ':' TypeExpr / IDENT ':' TypeExpr ('=' Expr)?
Param(t, p) ==
    Then(Expect(t, p, Idents), LAMBDA i : Then(Expect(t, i.p, {":"}), LAMBDA c :
    Then(Parse("type", t, c.p), LAMBDA y :
        IF K(t, p) # "self" /\ K(t, y.p) = "="
        THEN Then(Parse("expr", t, y.p + 1), LAMBDA d : Ok(Node("param", "", <<y.n, d.n>>), d.p))
        ELSE Ok(Node("param", "", <<y.n>>), y.p))))
Params(t, p) == Then(Expect(t, p, {"("}), LAMBDA o : Listed("param", t, o.p, ")", <<>>))

\* vec[e for x in it : filter] and vec[a, b, c,]
RECURSIVE VecRest(_, _, _)
VecRest(t, p, acc) ==
    IF K(t, p) = "," /\ K(t, p + 1) # "]"
    THEN Then(Parse("expr", t, p + 1), LAMBDA e : VecRest(t, e.p, Append(acc, e.n)))
    ELSE Then(Expect(t, Eat(t, p, {","}), {"]"}), LAMBDA c : Ok(Node("vec", "", acc), c.p))
Filter(t, p) ==
    IF K(t, p) # ":" THEN Ok(Node("list", "", <<>>), p)
    ELSE Then(Parse("expr", t, p + 1), LAMBDA e : Ok(Node("list", "", <<e.n>>), e.p))
Vec(t, p) ==
    Then(Expect(t, p + 1, {"["}), LAMBDA o :
    IF K(t, o.p) = "]" THEN Ok(Leaf("vec"), o.p + 1)
    ELSE Then(Parse("expr", t, o.p), LAMBDA e :
         IF K(t, e.p) # "for" THEN VecRest(t, e.p, <<e.n>>)
         ELSE Then(Parse("forPattern", t, e.p + 1), LAMBDA m : Then(Expect(t, m.p, {"in"}), LAMBDA i :
              Then(Parse("operand", t, i.p), LAMBDA x : Then(Filter(t, x.p), LAMBDA f :
              Then(Expect(t, f.p, {"]"}), LAMBDA c :
                  Ok(Node("vecComp", m.n.k, <<e.n, x.n>> \o f.n.c), c.p))))))))

\* 'fun' ParamList TypeExpr Block
Closure(t, p) ==
    Then(Params(t, p + 1), LAMBDA l : Then(Parse("type", t, l.p), LAMBDA y :
    Then(Parse("block", t, y.p), LAMBDA b : Ok(Node("closure", "", l.n.c \o <<y.n, b.n>>), b.p))))

\* 'handle' '|' IDENT '|' Block, if there is one
Handle(t, p) ==
    IF K(t, p) # "handle" THEN Ok(Node("list", "", <<>>), p)
    ELSE Then(Expect(t, p + 1, {"|"}), LAMBDA o : Then(Binding(t, p + 1), LAMBDA i :
         Then(Parse("block", t, i.p), LAMBDA b : Ok(Node("list", "", <<b.n>>), b.p))))

\* 'with' Expr (':' '.' IDENT)? Block HandleBlock?
With(t, p) ==
    Then(Parse("expr", t, p + 1), LAMBDA r :
    LET cleanup == IF K(t, r.p) # ":" THEN Ok(Leaf("none"), r.p)
                   ELSE Then(Expect(t, r.p + 1, {"."}), LAMBDA d : Expect(t, d.p, Idents))
    IN Then(cleanup, LAMBDA c : Then(Parse("block", t, c.p), LAMBDA b : Then(Handle(t, b.p), LAMBDA h :
           Ok(Node("withExpr", c.n.k, <<r.n, b.n>> \o h.n.c), h.p)))))

\* Block / ',' Stmt, and Block / Stmt after defer
StmtBlock(t, p) ==
    Then(Parse("stmt", t, p), LAMBDA s :
        Ok(IF s.n.k = "exprStmt" THEN TailBlock(s.n.c[1]) ELSE Node("block", "", <<s.n>>), s.p))
Body(t, p) == IF K(t, p) = "," THEN StmtBlock(t, p + 1) ELSE Parse("block", t, p)
DeferBody(t, p) == IF K(t, p) = "{" THEN Parse("block", t, p) ELSE StmtBlock(t, p)

\* Where the else of an if may start; the line breaks before it are gone.
ElseAt(t, p) == EatNewlines(t, p)

If(t, p) ==
    Then(Parse("expr", t, p + 1), LAMBDA e : Then(Unwrap(t, e.p), LAMBDA u : Then(Body(t, u.p), LAMBDA b :
    LET kind == IF u.n.k = "unwrap" THEN "ifUnwrap" ELSE "if"
        q == ElseAt(t, b.p)
    IN CASE K(t, q) # "else" -> Ok(Node(kind, "", <<e.n, b.n>>), q)
         [] K(t, q) = "else" /\ kind = "if" /\ K(t, q + 1) = "if" ->
                Then(Parse("if", t, q + 1), LAMBDA i : Ok(IfNode(e.n, b.n, TailBlock(i.n)), i.p))
         [] OTHER -> Then(Body(t, q + 1), LAMBDA o : Ok(Node(kind, "", <<e.n, b.n, o.n>>), o.p)))))

Match(t, p) ==
    Then(Parse("expr", t, p + 1), LAMBDA v : Then(Arms(t, v.p), LAMBDA l :
        Ok(Node("match", "", <<v.n>> \o l.n.c), l.p)))

\* '_' / literal / '.' IDENT ('(' IDENT, ... ')')? / IDENT
Pattern(t, p) ==
    CASE K(t, p) = "_" -> Ok(Leaf("wildcard"), p + 1)
      [] K(t, p) \in {"int", "lit"} -> Ok(Leaf(K(t, p)), p + 1)
      [] K(t, p) = "." ->
             Then(Expect(t, p + 1, Idents), LAMBDA i :
                 IF K(t, i.p) # "(" THEN Ok(Leaf("variant"), i.p)
                 ELSE Then(Listed("ident", t, i.p + 1, ")", <<>>), LAMBDA l : Ok(Node("variant", "", l.n.c), l.p)))
      [] OTHER -> Expect(t, p, Idents)

\* 'while' in an expression: an unwrapping loop, or a block that holds the loop
WhileExpr(t, p) ==
    Then(Parse("expr", t, p + 1), LAMBDA e : Then(Unwrap(t, e.p), LAMBDA u : Then(Parse("block", t, u.p), LAMBDA b :
        Ok(IF u.n.k = "unwrap" THEN Node("whileUnwrap", "", <<e.n, b.n>>)
           ELSE Node("blockExpr", "", <<Node("block", "", <<Node("while", "", <<e.n, b.n>>)>>)>>), b.p))))

Bracketed(t, p, what, close, kind) ==
    Then(Listed(what, t, p, close, <<>>), LAMBDA l : Ok(Node(kind, "", l.n.c), l.p))

Primary(t, p) ==
    LET k == K(t, p) IN
    CASE k = "unit" -> Ok(Leaf("unitLit"), p + 1)
      [] k = "int" -> UnitSuffix(t, Ok(Leaf("int"), p + 1))
      [] k \in {"lit", "self"} \cup PrimTypes -> Ok(Leaf(k), p + 1)
      [] k = "vec" -> Vec(t, p)
      [] k = "box" -> Then(Expect(t, p + 1, {"["}), LAMBDA o : Bracketed(t, o.p, "expr", "]", "box"))
      [] k \in Idents \ {"self", "vec", "box"} -> Ok(Leaf("id"), p + 1)
      [] k = "(" -> Then(Parse("expr", t, p + 1), LAMBDA e : Then(Expect(t, e.p, {")"}), LAMBDA c : Ok(e.n, c.p)))
      [] k = "{" -> Then(Parse("block", t, p), LAMBDA b : Ok(Node("blockExpr", "", <<b.n>>), b.p))
      [] k = "with" -> With(t, p)
      [] k = "if" -> If(t, p)
      [] k = "match" -> Match(t, p)
      [] k = "while" -> WhileExpr(t, p)
      [] k = "[" -> Bracketed(t, p + 1, "element", "]", "array")
      [] k = "." /\ K(t, p + 1) \in Idents -> Ok(Leaf("variantLit"), p + 2)
      [] k = "." /\ K(t, p + 1) \notin Idents ->
             Then(Expect(t, p + 1, {"{"}), LAMBDA o : Bracketed(t, o.p, "field", "}", "tuple"))
      [] k = "fun" /\ K(t, p + 1) = "(" -> Closure(t, p)
      [] OTHER -> Fail(p)

-----------------------------------------------------------------------------
(* Statements.                                                             *)

\* The last expression of a block is its value, a separator after it or not.
IsTail(t, s) == s.n.k = "exprStmt" /\ K(t, s.p) = "}"

BlockItems(t, q, acc) ==
    LET p == EatNewlines(t, q) IN
    IF K(t, p) \in {"}", "eof"}
    THEN Then(Expect(t, p, {"}"}), LAMBDA c : Ok(Node("block", "", acc), c.p))
    ELSE Then(Parse("stmt", t, p), LAMBDA s :
         IF IsTail(t, s) THEN Ok(Node("block", "tail", Append(acc, s.n.c[1])), s.p + 1)
         ELSE BlockItems(t, s.p, Append(acc, s.n)))
Block(t, p) == Then(Expect(t, p, {"{"}), LAMBDA o : BlockItems(t, o.p, <<>>))

\* A statement and the separators after it.
Ended(t, r) == Then(r, LAMBDA s : Ok(s.n, EatNewlines(t, s.p)))

\* Mutant: return and break read a value past a semicolon.
StmtEndInBlock == {"}", "eof"}

\* What shows that return and break have no value.
StmtEnd == {";", "}", "eof"}

Return(t, p) ==
    IF K(t, p + 1) \in StmtEnd THEN Ok(Leaf("return"), p + 1)
    ELSE Then(Parse("expr", t, p + 1), LAMBDA e : Ok(Node("return", "", <<e.n>>), e.p))

BreakStmt(t, p) ==
    LET labelled == K(t, p + 1) \in Idents /\ K(t, p + 2) \in StmtEnd
        q == IF labelled THEN p + 2 ELSE p + 1
        label == IF labelled THEN "label" ELSE ""
    IN IF K(t, q) \in StmtEnd THEN Ok(Node("break", label, <<>>), q)
       ELSE Then(Parse("expr", t, q), LAMBDA e : Ok(Node("break", label, <<e.n>>), e.p))

Continue(t, p) == Ok(Leaf("continue"), Eat(t, p + 1, Idents))

\* 'let' 'var'? (UNIT ':=' Expr / IDENT ':=' TypeExpr / IDENT (':' TypeExpr)? ('=' Expr)?)
Let(t, p) ==
    LET q == Eat(t, p + 1, {"var"}) IN
    IF K(t, q) = "unit"
    THEN Then(Expect(t, q + 1, {":="}), LAMBDA c : Then(Parse("expr", t, c.p), LAMBDA e :
             Ok(Node("unitAlias", "", <<e.n>>), e.p)))
    ELSE Then(Expect(t, q, Idents), LAMBDA i :
         IF K(t, i.p) = ":=" THEN Then(Parse("type", t, i.p + 1), LAMBDA y : Ok(Node("typeAlias", "", <<y.n>>), y.p))
         ELSE LET ty == IF K(t, i.p) = ":" THEN Parse("type", t, i.p + 1) ELSE Ok(Leaf("tyInfer"), i.p) IN
              Then(ty, LAMBDA y :
                  IF K(t, y.p) # "=" THEN Ok(Node("let", "", <<y.n>>), y.p)
                  ELSE Then(Parse("expr", t, y.p + 1), LAMBDA e : Ok(Node("let", "", <<y.n, e.n>>), e.p))))

\* '*' IDENT / '(' IDENT (',' IDENT)* ')' / IDENT
ForPattern(t, p) ==
    CASE K(t, p) = "*" -> Then(Expect(t, p + 1, Idents), LAMBDA i : Ok(Leaf("patRef"), i.p))
      [] K(t, p) = "(" -> Then(Items("ident", t, p + 1, <<>>), LAMBDA l : Then(Expect(t, l.p, {")"}), LAMBDA c :
                              Ok(Leaf("patTuple"), c.p)))
      [] OTHER -> Then(Expect(t, p, Idents), LAMBDA i : Ok(Leaf("patIdent"), i.p))

For(t, p) ==
    LET range == K(t, p + 1) \in Idents /\ K(t, p + 2) = "="
        from == Then(Parse("operand", t, p + 3), LAMBDA s : Then(Expect(t, s.p, {"..", "..."}), LAMBDA d :
                Then(Parse("operand", t, d.p), LAMBDA e : Ok(Node("forRange", d.n.k, <<s.n, e.n>>), e.p))))
        over == Then(ForPattern(t, p + 1), LAMBDA m : Then(Expect(t, m.p, {"in"}), LAMBDA i :
                Then(Parse("expr", t, i.p), LAMBDA e : Ok(Node("forIter", m.n.k, <<e.n>>), e.p))))
    IN Then(IF range THEN from ELSE over, LAMBDA h : Then(Filter(t, h.p), LAMBDA f : Then(Body(t, f.p), LAMBDA b :
           Ok(Node(h.n.k, h.n.s, h.n.c \o f.n.c \o <<b.n>>), b.p))))

While(t, p) ==
    Then(Parse("expr", t, p + 1), LAMBDA e : Then(Unwrap(t, e.p), LAMBDA u :
        IF u.n.k = "unwrap"
        THEN Then(Parse("block", t, u.p), LAMBDA b : Ok(Node("exprStmt", "", <<Node("whileUnwrap", "", <<e.n, b.n>>)>>), b.p))
        ELSE Then(Body(t, u.p), LAMBDA b : Ok(Node("while", "", <<e.n, b.n>>), b.p))))

AssignOps == {"=", "+="}
ExprStmt(t, p) ==
    Then(Parse("expr", t, p), LAMBDA e :
        IF K(t, e.p) \notin AssignOps THEN Ok(Node("exprStmt", "", <<e.n>>), e.p)
        ELSE Then(Parse("expr", t, e.p + 1), LAMBDA v : Ok(Node("assign", K(t, e.p), <<e.n, v.n>>), v.p)))

Defer(t, p, kind) == Then(DeferBody(t, p), LAMBDA b : Ok(Node("defer", kind, <<b.n>>), b.p))

Stmt(t, q) ==
    LET s == EatNewlines(t, q)
        labelled == K(t, s) \in Idents /\ K(t, s + 1) = ":" /\ K(t, s + 2) \in {"for", "while"}
        p == IF labelled THEN s + 2 ELSE s
        k == K(t, p)
    IN CASE k = "!" /\ K(t, p + 1) = "defer" -> Defer(t, p + 2, "error")
         [] k = "defer" -> Defer(t, p + 1, "")
         [] k = "let" -> Ended(t, Let(t, p))
         [] k = "return" -> Ended(t, Return(t, p))
         [] k = "break" -> Ended(t, BreakStmt(t, p))
         [] k = "continue" -> Ended(t, Continue(t, p))
         [] k = "for" -> For(t, p)
         [] k = "while" -> While(t, p)
         [] OTHER -> Ended(t, ExprStmt(t, p))
=============================================================================
