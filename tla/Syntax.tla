------------------------------- MODULE Syntax -------------------------------
(***************************************************************************)
(* Source text as it is typed, one phrase after another, and what the      *)
(* tokenizer and the parser make of it.  A text is two parts; only text    *)
(* the parser may still accept is typed further.                           *)
(***************************************************************************)
EXTENDS Declarations

CONSTANT Vocabularies   \* [goal, phrases, breaks, max, next]: phrases, and how many per part

VARIABLES
    vocab,  \* the vocabulary in use
    first,  \* the first part and its tree, <<>> until it is finished
    rest,   \* the part being typed
    left,   \* how many more phrases it may have
    tree    \* what the parser makes of rest

vars == <<vocab, first, rest, left, tree>>

\* A phrase on a new line or on the line before.
Tokens(phrase, nl) == [i \in DOMAIN phrase |-> [k |-> phrase[i], nl |-> nl /\ i = 1]]
Tok(k, nl) == [k |-> k, nl |-> nl]

\* The tokens of a text, in the braces of a block if it is statements.
Framed(goal, raw, nl) ==
    Text(Tokenize(IF goal = "block"
             THEN <<Tok("{", FALSE)>> \o raw \o <<Tok("}", nl), Tok("eof", FALSE)>>
             ELSE raw \o <<Tok("eof", nl)>>))

\* The tree of a text; when there is none, 0 if only the end of it is refused.
Outcome(t, r) ==
    CASE r.ok /\ K(t, r.p) = "eof" -> r
      [] ~r.ok /\ r.p >= Size(t) - 1 -> Fail(0)
      [] OTHER -> Fail(1)
Parsed(goal, t) == Outcome(t, Parse(goal, t, 1))
TreeOf(goal, raw, nl) == Parsed(goal, Framed(goal, raw, nl))

Init ==
    /\ vocab \in Vocabularies
    /\ first = <<>> /\ rest = <<>>
    /\ left = vocab.max
    /\ tree = Fail(0)

Write(phrase, nl) ==
    /\ left > 0
    /\ nl => vocab.breaks /\ rest # <<>>
    /\ rest' = rest \o Tokens(phrase, nl)
    /\ tree' = TreeOf(vocab.goal, rest', FALSE)
    /\ tree'.ok \/ tree'.p = 0
    /\ left' = left - 1
    /\ UNCHANGED <<vocab, first>>

\* The part typed so far is complete by itself; another one follows.
Finish ==
    /\ first = <<>> /\ tree.ok /\ rest # <<>> /\ vocab.goal # "expr"
    /\ first' = <<rest, tree.n>> /\ rest' = <<>>
    /\ left' = vocab.next
    /\ tree' = Fail(0)
    /\ UNCHANGED vocab

Next == Finish \/ \E phrase \in vocab.phrases, nl \in BOOLEAN : Write(phrase, nl)

Spec == Init /\ [][Next]_vars

-----------------------------------------------------------------------------
(* Properties.                                                             *)

\* The children a node may have, where the passes after the parser rely on it: the
\* branches of an if and the bodies of loops, arms and closures are blocks.
WellFormed(n) ==
    LET c == n.c
        block(i) == c[i].k = "block"
    IN CASE n.k \in {"if", "ifUnwrap"} -> Len(c) \in 2..3 /\ \A i \in 2..Len(c) : block(i)
         [] n.k \in {"while", "whileUnwrap", "forIter", "forRange", "closure", "defer", "test"} ->
                c # <<>> /\ block(Len(c))
         [] n.k = "arm" -> Len(c) = 2 /\ block(2)
         [] n.k \in {"bin", "orelse", "withAlloc"} -> Len(c) = 2
         [] n.k = "block" -> n.s = "tail" => c # <<>>
         [] n.k = "match" -> \A i \in 2..Len(c) : c[i].k = "arm"
         [] OTHER -> TRUE
RECURSIVE AllWellFormed(_)
AllWellFormed(n) == WellFormed(n) /\ \A i \in DOMAIN n.c : AllWellFormed(n.c[i])

\* Trees have the shape the checker and the generator expect (ast.py).
TypeOK ==
    /\ vocab \in Vocabularies
    /\ left \in 0..vocab.max
    /\ IF tree.ok THEN AllWellFormed(tree.n) ELSE tree.p = 0

\* The tree of operands and operators by definition: its root is the last of the
\* weakest operators, the first if it is right-associative; comparisons of one
\* strength that follow each other are all compared, and joined by and.
RECURSIVE Split(_)
Split(ks) ==
    LET ops == {i \in DOMAIN ks : ks[i] \in DOMAIN Prec}
        weakest == {i \in ops : \A j \in ops : Prec[ks[i]] <= Prec[ks[j]]}
        last == CHOOSE i \in weakest : \A j \in weakest : j <= i
        frst == CHOOSE i \in weakest : \A j \in weakest : i <= j
        run == SelectSeq([i \in DOMAIN ks |-> i], LAMBDA i :
                   i \in weakest /\ \A j \in weakest : j >= i => ks[j] \in Chainable)
        at(i) == Node("bin", ks[i], <<Split(SubSeq(ks, 1, i - 1)), Split(SubSeq(ks, i + 1, Len(ks)))>>)
    IN CASE ops = {} -> Leaf(Last(ks))
         [] ops # {} /\ ks[last] \in RightAssoc -> at(frst)
         [] ops # {} /\ run = <<>> -> at(last)
         [] OTHER ->
              Chained([n \in 1..Len(run) + 1 |->
                           Split(SubSeq(ks, IF n = 1 THEN 1 ELSE run[n - 1] + 1,
                                            IF n > Len(run) THEN Len(ks) ELSE run[n] - 1))],
                      [n \in DOMAIN run |-> ks[run[n]]])

\* Operators group by their strength, however many there are of whichever kinds
\* (_parse_expr_precedence, _parse_comparison_chain).
Kinds(raw) == [i \in DOMAIN raw |-> raw[i].k]
Alternating(ks) == \A i \in DOMAIN ks : IF i % 2 = 1 THEN ks[i] = "id" ELSE ks[i] \in DOMAIN Prec
Grouped ==
    tree.ok /\ vocab.goal = "expr" /\ Alternating(Kinds(rest)) => tree.n = Split(Kinds(rest))

\* A part ends in an if without an else, which looks for the else further on.
RECURSIVE EndsInIf(_)
EndsInIf(n) ==
    \/ n.k \in {"if", "ifUnwrap"} /\ Len(n.c) = 2
    \/ n.c # <<>> /\ EndsInIf(Last(n.c))

\* Both parts are complete, and together they are the statements, or the
\* declarations, of the one followed by those of the other.
Both == first # <<>> /\ tree.ok
Statements(n) ==
    IF n.s # "tail" THEN n.c
    ELSE Append(Front(n.c), Node("exprStmt", "", <<Last(n.c)>>))
Consecutive(joined) ==
    /\ joined.ok
    /\ Statements(joined.n) = Statements(first[2]) \o Statements(tree.n)
    /\ joined.n.s = tree.n.s

\* No statement and no declaration reads on past a semicolon, whatever follows
\* (_parse_stmt, _parse_program); the if without an else is the exception.
SemicolonEnds ==
    Both /\ ~EndsInIf(first[2]) =>
        Consecutive(TreeOf(vocab.goal, first[1] \o <<Tok(";", FALSE)>> \o rest, FALSE))

\* Nor past a line break, when the next line does not continue it and the line ends
\* in a token that ends statements (tokenize); return and break are the exception.
OnNextLine == [rest EXCEPT ![1].nl = TRUE]
Continued == StartsContinuation(rest, 1)
Exits == \E i \in DOMAIN first[1] : first[1][i].k \in {"return", "break"}
LineEnds ==
    Both /\ ~EndsInIf(first[2]) /\ ~Continued /\ ~Exits /\ Last(first[1]).k \in StmtEnders =>
        Consecutive(TreeOf(vocab.goal, first[1] \o OnNextLine, FALSE))

\* "Newlines terminate statements" and "Semicolons are accepted anywhere as a
\* synonym" (design/mesa_design.md:57): after return and break too.
NewlineTerminates ==
    Both /\ ~EndsInIf(first[2]) /\ ~Continued /\ Last(first[1]).k \in StmtEnders =>
        Consecutive(TreeOf(vocab.goal, first[1] \o OnNextLine, FALSE))
=============================================================================
