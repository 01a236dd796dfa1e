---------------------------- MODULE SourceTokens ----------------------------
(***************************************************************************)
(* The second pass of src/tokenizer.py: which line breaks become the       *)
(* NEWLINE tokens that separate statements.  A token is [k, nl]: its kind, *)
(* and whether a line break comes before it.  Of the kinds that every rule *)
(* treats alike one stands for all: "int" is a number, "lit" any other     *)
(* literal, "id" an identifier, and "vec", "_", "self" and the like are    *)
(* the identifiers whose spelling matters.                                 *)
(***************************************************************************)
EXTENDS Integers, Sequences, SequencesExt

Idents == {"id", "self", "vec", "mat", "box", "where", "_"}
Separators == {"nl", ";"}

\* _STMT_ENDERS and _CONTINUATION_STARTERS
StmtEnders == Idents \cup {"int", "lit", ")", "]", "}", "break", "continue", "return"}
ContinuationStarters ==
    {"+", "-", "*", "^", "==", "<", "and", "or", "orelse", "?.", ".==", ".<"}

\* Whether the token at i continues the line before: .name does, .{ does not.
StartsContinuation(raw, i) ==
    IF raw[i].k = "." THEN i < Len(raw) /\ raw[i + 1].k \in Idents
    ELSE raw[i].k \in ContinuationStarters

\* Mutant: only parentheses are closed again.
OpenBrackets(nesting, raw, i) ==
    LET k == raw[i].k IN
    CASE k \in {"(", "["} -> Append(nesting, k)
      [] nesting # <<>> /\ k = ")" -> Front(nesting)
      [] OTHER -> nesting

\* The delimiters that are open after the token at i; the braces of a block are
\* not kept, and its closing brace closes a value that it stands in.
Open(nesting, raw, i) ==
    LET k == raw[i].k IN
    CASE k \in {"(", "["} -> Append(nesting, k)
      [] k = "{" /\ i > 1 /\ raw[i - 1].k = "." -> Append(nesting, ".{")
      [] nesting # <<>> /\ <<Last(nesting), k>> \in {<<"(", ")">>, <<"[", "]">>, <<".{", "}">>} ->
             Front(nesting)
      [] OTHER -> nesting

\* Whether a NEWLINE is inserted after the token at i.
Break(raw, i, nesting) ==
    /\ nesting = <<>> /\ raw[i + 1].nl /\ raw[i].k \in StmtEnders
    /\ ~StartsContinuation(raw, i + 1)

Newline == [k |-> "nl", nl |-> FALSE]

\* tokenize: the tokens of the whole source, with the NEWLINE tokens.
Tokenize(raw) ==
    LET nest[i \in 0..Len(raw)] == IF i = 0 THEN <<>> ELSE Open(nest[i - 1], raw, i)
    IN FlattenSeq([i \in DOMAIN raw |->
           IF i < Len(raw) /\ Break(raw, i, nest[i]) THEN <<raw[i], Newline>> ELSE <<raw[i]>>])
=============================================================================
