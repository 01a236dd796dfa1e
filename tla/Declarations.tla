---------------------------- MODULE Declarations ----------------------------
(***************************************************************************)
(* The declarations of src/parser.py: packages, imports and exports,       *)
(* functions, structs, unions, interfaces, definitions, aliases, errors    *)
(* and tests, and the program that is a list of them.                      *)
(***************************************************************************)
EXTENDS Parser

\* '#[' IDENT (('=' Expr) / ('(' Expr ')'))? ']' and '@' IDENT ArgList?, each
\* on lines of its own before the declaration
HashAttr(t, p) ==
    Then(Expect(t, p + 1, Idents), LAMBDA i :
    LET value == CASE K(t, i.p) = "=" -> Parse("expr", t, i.p + 1)
                   [] K(t, i.p) = "(" -> Then(Parse("expr", t, i.p + 1), LAMBDA e : Expect(t, e.p, {")"}))
                   [] OTHER -> i
    IN Then(value, LAMBDA v : Expect(t, v.p, {"]"})))

RECURSIVE Metadata(_, _)
Metadata(t, p) ==
    CASE K(t, p) = "#[" -> Then(HashAttr(t, p), LAMBDA h : Metadata(t, EatNewlines(t, h.p)))
      [] K(t, p) = "@" -> Then(Intrinsic(t, p), LAMBDA h : Metadata(t, EatNewlines(t, h.p)))
      [] OTHER -> Ok(Leaf("metadata"), p)

Visibility(t, p) == Eat(t, p, {"pub", "export"})

\* IDENT ('as' IDENT)?
Alias(t, p) == IF K(t, p) = "as" THEN Expect(t, p + 1, Idents) ELSE Ok(Leaf("none"), p)
RECURSIVE Aliased(_, _)
Aliased(t, p) ==
    Then(Expect(t, p, Idents), LAMBDA i : Then(Alias(t, i.p), LAMBDA l :
        IF K(t, l.p) = "," THEN Aliased(t, l.p + 1) ELSE Ok(Leaf("names"), l.p)))
IdentList(t, p) == Items("ident", t, p, <<>>)

\* '[' IDENT (',' IDENT)* ']', and 'where' with everything before the body
Generics(t, p) ==
    IF K(t, p) # "[" THEN Ok(Leaf("generics"), p)
    ELSE Then(IdentList(t, p + 1), LAMBDA l : Expect(t, l.p, {"]"}))
Where(t, p) ==
    IF K(t, p) # "where" THEN p
    ELSE CHOOSE q \in p + 1..Size(t) :
            K(t, q) \in {"{", ";", "eof"} /\ \A r \in p + 1..q - 1 : K(t, r) \notin {"{", ";", "eof"}

\* 'fun' IDENT GenericParams? '(' ParamList ')' TypeExpr
FunProto(t, p) ==
    Then(Expect(t, p, {"fun"}), LAMBDA f : Then(Expect(t, f.p, Idents), LAMBDA i :
    Then(Generics(t, i.p), LAMBDA g : Then(Params(t, g.p), LAMBDA l : Then(Parse("type", t, l.p), LAMBDA y :
        Ok(Node("fun", "", l.n.c \o <<y.n>>), y.p))))))

\* FunProto Block? HandleBlock?
FunDef(t, p) ==
    Then(Parse("proto", t, p), LAMBDA f :
    LET body == IF K(t, f.p) # "{" THEN Ok(Node("fun", "proto", f.n.c), EatNewlines(t, f.p))
                ELSE Then(Parse("block", t, f.p), LAMBDA b : Ok(Node("fun", "body", Append(f.n.c, b.n)), b.p))
    IN Then(body, LAMBDA b : Then(Handle(t, b.p), LAMBDA h :
           Ok(Node("fun", b.n.s, b.n.c \o h.n.c), h.p))))

\* DeclMetadata Visibility? ('inline')? FunDef
Method(t, p) ==
    Then(Metadata(t, p), LAMBDA d : Parse("fun", t, Eat(t, Visibility(t, d.p), {"inline"})))

\* IDENT ':' TypeExpr ('=' Expr)? ','?
Field(t, p) ==
    Then(Expect(t, p, Idents), LAMBDA i : Then(Expect(t, i.p, {":"}), LAMBDA c :
    Then(Parse("type", t, c.p), LAMBDA y :
    LET default == IF K(t, y.p) = "=" THEN Parse("expr", t, y.p + 1) ELSE Ok(Leaf("none"), y.p)
    IN Then(default, LAMBDA d : Ok(Node("fieldDecl", "", <<y.n, d.n>>), Eat(t, d.p, {","}))))))

\* IDENT ('(' TypeExpr (',' TypeExpr)* ')')? ','?, one type only for an error
Variant(t, p, union) ==
    Then(Expect(t, p, Idents), LAMBDA i :
    LET types == IF union THEN Items("type", t, i.p + 1, <<>>)
                 ELSE Then(Parse("type", t, i.p + 1), LAMBDA y : Ok(Node("list", "", <<y.n>>), y.p))
        payload == IF K(t, i.p) # "(" THEN Ok(Node("list", "", <<>>), i.p)
                   ELSE Then(types, LAMBDA l : Then(Expect(t, l.p, {")"}), LAMBDA c : Ok(l.n, c.p)))
    IN Then(payload, LAMBDA l : Ok(Node("variantDecl", "", l.n.c), Eat(t, l.p, {","}))))

\* '?'? DeclMetadata Visibility? FunProto Block?
InterfaceMethod(t, p) ==
    Then(Metadata(t, Eat(t, p, {"?"})), LAMBDA d : Then(Parse("proto", t, Visibility(t, d.p)), LAMBDA f :
        IF K(t, f.p) # "{" THEN f
        ELSE Then(Parse("block", t, f.p), LAMBDA b : Ok(Node("fun", "body", Append(f.n.c, b.n)), b.p))))

Member(what, t, p) ==
    CASE what = "struct" /\ K(t, p) \in {"#[", "@", "fun", "pub", "inline"} -> Method(t, p)
      [] what = "struct" /\ K(t, p) \notin {"#[", "@", "fun", "pub", "inline"} -> Field(t, p)
      [] what = "union" -> Variant(t, p, TRUE)
      [] what = "error" -> Variant(t, p, FALSE)
      [] what = "interface" -> InterfaceMethod(t, p)
      [] what = "def" -> Method(t, p)

\* The members between the braces, with separators between them.
RECURSIVE Members(_, _, _, _)
Members(what, t, q, acc) ==
    LET p == EatNewlines(t, q) IN
    IF K(t, p) \in {"}", "eof"}
    THEN Then(Expect(t, p, {"}"}), LAMBDA c : Ok(Node(what, "", acc), c.p))
    ELSE Then(Member(what, t, p), LAMBDA m : Members(what, t, m.p, Append(acc, m.n)))
Braced(what, t, p) == Then(Expect(t, p, {"{"}), LAMBDA o : Members(what, t, o.p, <<>>))

Struct(t, p) ==
    Then(Expect(t, p + 1, Idents), LAMBDA i : Then(Generics(t, i.p), LAMBDA g : Parse("struct", t, Where(t, g.p))))
Union(t, p) ==
    Then(Expect(t, p + 1, Idents), LAMBDA i : Then(Generics(t, i.p), LAMBDA g : Parse("union", t, g.p)))
Interface(t, p) ==
    Then(Expect(t, p + 1, Idents), LAMBDA i : Then(Generics(t, i.p), LAMBDA g :
    LET parents == IF K(t, g.p) = ":" THEN IdentList(t, g.p + 1) ELSE g
    IN Then(parents, LAMBDA l : Parse("interface", t, Where(t, l.p)))))
Def(t, p) ==
    Then(IdentList(t, p + 1), LAMBDA l : Then(Expect(t, l.p, {"for"}), LAMBDA f :
    Then(Expect(t, f.p, Idents), LAMBDA i : Parse("def", t, Where(t, i.p)))))
Error(t, p) == Then(Expect(t, p + 1, Idents), LAMBDA i : Parse("error", t, i.p))
TypeAlias(t, p) ==
    Then(Expect(t, p + 1, Idents), LAMBDA i : Then(Expect(t, i.p, {"="}), LAMBDA e :
    Then(Parse("type", t, e.p), LAMBDA y : Ok(Node("typeAlias", "", <<y.n>>), y.p))))
Test(t, p) ==
    Then(Expect(t, p + 1, {"lit"}), LAMBDA s : Then(Parse("block", t, s.p), LAMBDA b :
        Ok(Node("test", "", <<b.n>>), b.p)))

\* 'import' DottedName ('as' IDENT)?, and the declarations that start with 'from':
\* an import, the exports of a file, the exports of a package
Import(t, p) ==
    Then(DottedName(t, p + 1), LAMBDA d : Then(Alias(t, d.p), LAMBDA l : Ok(Leaf("import"), l.p)))

RECURSIVE Restriction(_, _)
Restriction(t, p) ==
    IF K(t, p) \in {"}", "eof"} THEN Expect(t, p, {"}"})
    ELSE Then(Expect(t, p, Idents), LAMBDA i : Then(Expect(t, i.p, {":"}), LAMBDA c :
         Then(Parse("type", t, c.p), LAMBDA y : Restriction(t, Eat(t, y.p, {","})))))

FromExport(t, p) ==
    Then(Expect(t, p, Idents), LAMBDA i :
    LET names == CASE K(t, i.p) = "{" -> Restriction(t, i.p + 1)
                   [] K(t, i.p) = "," -> IdentList(t, i.p + 1)
                   [] OTHER -> i
    IN Then(names, LAMBDA l : Ok(Leaf("fromExport"), l.p)))

PkgExport(t, p) ==
    Then(Expect(t, p + 1, {"lit"}), LAMBDA s : Then(Expect(t, s.p, {"export"}), LAMBDA e :
    Then(Aliased(t, e.p), LAMBDA l : Ok(Leaf("pkgExport"), l.p))))

From(t, p) ==
    Then(DottedName(t, p + 1), LAMBDA d :
        CASE K(t, d.p) = "import" -> Then(Aliased(t, d.p + 1), LAMBDA l : Ok(Leaf("fromImport"), l.p))
          [] K(t, d.p) = "export" -> FromExport(t, d.p + 1)
          [] OTHER -> Fail(d.p))

Opaque(t, p) ==
    IF K(t, p + 1) = "from" THEN PkgExport(t, p + 1)
    ELSE Then(Expect(t, p + 1, {"type"}), LAMBDA y : Expect(t, y.p, Idents))

\* What stands after the metadata, the visibility and 'inline'
Declared(t, p) ==
    LET k == K(t, p) IN
    CASE k = "fun" -> Parse("fun", t, p)
      [] k = "opaque" -> Opaque(t, p)
      [] k = "test" -> Test(t, p)
      [] k = "struct" -> Struct(t, p)
      [] k = "union" -> Union(t, p)
      [] k = "interface" -> Interface(t, p)
      [] k = "def" -> Def(t, p)
      [] k = "type" -> TypeAlias(t, p)
      [] k = "import" -> Import(t, p)
      [] k = "let" -> Let(t, p)
      [] k = "from" -> From(t, p)
      [] k = "error" -> Error(t, p)
      [] k \in Separators -> Parse("decl", t, p + 1)
      [] OTHER -> Fail(p)

Decl(t, p) ==
    CASE K(t, p) = "opaque" -> IF K(t, p + 1) = "from" THEN PkgExport(t, p + 1) ELSE Fail(p + 1)
      [] K(t, p) = "export" /\ K(t, p + 1) = "lit" -> Ok(Leaf("pkgExportAll"), p + 2)
      [] K(t, p) = "from" /\ K(t, p + 1) = "lit" -> PkgExport(t, p)
      [] OTHER -> Then(Metadata(t, p), LAMBDA d :
             Declared(t, Eat(t, Visibility(t, EatNewlines(t, d.p)), {"inline"})))

RECURSIVE Decls(_, _, _)
Decls(t, q, acc) ==
    LET p == EatNewlines(t, q) IN
    IF K(t, p) = "eof" THEN Ok(Node("program", "", acc), p)
    ELSE Then(Parse("decl", t, p), LAMBDA d : Decls(t, d.p, Append(acc, d.n)))

\* Newline* PkgDecl? Decl* EOF
Program(t) ==
    LET p == EatNewlines(t, 1) IN
    Then(IF K(t, p) = "pkg" THEN DottedName(t, p + 1) ELSE Ok(Leaf("none"), p),
         LAMBDA d : Decls(t, d.p, IF K(t, p) = "pkg" THEN <<Leaf("pkg")>> ELSE <<>>))

-----------------------------------------------------------------------------
Bodies == {"struct", "union", "interface", "def", "error"}

\* What is read of t as the nonterminal.
Production(what, t, p) ==
    CASE what \in {"expr", "element"} -> Expr(t, p)
      [] what = "operand" -> Precedence(t, p, 0, TRUE)
      [] what = "cond" -> Precedence(t, p, 0, FALSE)
      [] what = "primary" -> Primary(t, p)
      [] what = "arg" -> Arg(t, p, "=")
      [] what = "field" -> Arg(t, p, ":")
      [] what = "type" -> Type(t, p)
      [] what = "typeField" -> TypeField(t, p)
      [] what = "param" -> Param(t, p)
      [] what = "ident" -> Expect(t, p, Idents)
      [] what = "if" -> If(t, p)
      [] what = "pattern" -> Pattern(t, p)
      [] what = "forPattern" -> ForPattern(t, p)
      [] what = "block" -> Block(t, p)
      [] what = "stmt" -> Stmt(t, p)
      [] what = "proto" -> FunProto(t, p)
      [] what = "fun" -> FunDef(t, p)
      [] what \in Bodies -> Braced(what, t, p)
      [] what = "decl" -> Decl(t, p)
      [] what = "program" -> Program(t)

Nonterminals == {"expr", "element", "operand", "cond", "primary", "arg", "field", "type", "typeField", "param", "ident",
                 "if", "pattern", "forPattern", "block", "stmt", "proto", "fun", "decl", "program"} \cup Bodies
Text(tokens) ==
    LET read[what \in Nonterminals, p \in Nat] == Production(what, [tokens |-> tokens, read |-> read], p)
    IN [tokens |-> tokens, read |-> read]
=============================================================================
