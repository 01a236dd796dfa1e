------------------------------ MODULE MCSyntax ------------------------------
EXTENDS Syntax

Words(goal, phrases, breaks, max, next) ==
    [goal |-> goal, phrases |-> phrases, breaks |-> breaks, max |-> max, next |-> next]

Body1 == <<"{", "id", "}">>

\* Operands and operators alone.
Operators == {"or", "and", "==", "<", "+", "*", "^", ".=="}
Terms1 == {<<"id">>} \cup {<<op, "id">> : op \in Operators}

\* What may follow an operand, and what looks as if it might.
Operands == {
    <<"id">>, <<"(", "id", ")">>, <<".", "id">>, <<"[", "int", "]">>, <<"-", "id">>, <<"=", "int">>,
    <<"orelse", "id">>, <<"catch", "|", "id", "|", "{", ".", "id", "=>", "id", "}">>,
    <<"if", "id", "else", "id">>, <<".", "{", "id", ":", "int", "}">>, <<"with", "id">>, <<"+-", "int">> }

\* Statements.
Statements1 == {
    <<"id">>, <<"let", "id", "=", "id">>, <<"let", "var", "id", ":", "id">>, <<"return">>, <<"break">>,
    <<"continue">>, <<"for", "id", "in", "id">>, <<"for", "id", "=", "int", "..", "int">>,
    <<"while", "id">>, <<",", "id">>, Body1, <<"!", "defer">>, <<"defer">>, <<"id", ":">>,
    <<"match", "id", "{", "_", "=>", "id", "}">>, <<"with", "id", ":", ".", "id">>,
    <<"|", "id", "|">>, <<"fun", "(", "id", ":", "id", ")", "void">> }
Branches == {<<"id">>, <<"if", "id">>, <<"else">>, Body1, <<"|", "id", "|">>, <<"(", "id", ")">>}

\* Types, and the brackets of expressions.
TypeWords == {
    <<"let", "id", ":">>, <<"?">>, <<"*">>, <<"[", "]">>, <<"id">>, <<"i32">>, <<"any", "id">>,
    <<"[", "id", "]">>, <<"vec", "[", "id", "]">>, <<"fun", "(", "id", ")">>, <<"!">>, <<"|">>,
    <<".", "{", "id", ":", "id", "}">>, <<"=", "id">>}
Literals == {
    <<"let", "id", "=">>, <<"vec", "[">>, <<"]">>, <<"[">>, <<"id">>, <<"(">>, <<")">>, <<",">>,
    <<"for", "id", "in", "id">>, <<":", "id">>, <<"unit">>, <<"int">>}

\* Declarations.
Declarations1 == {
    <<"fun", "id", "(", "id", ":", "id", ")", "void">>, Body1, <<"handle", "|", "id", "|", "{", "id", "}">>,
    <<"struct", "id", "{", "id", ":", "id", ",", "fun", "id", "(", ")", "void", "}">>,
    <<"union", "id", "{", "id", "(", "id", ",", "id", ")", "}">>, <<"error", "id", "{", "id", "}">>,
    <<"interface", "id", "{", "fun", "id", "(", ")", "void", "}">>, <<"def", "id", "for", "id", "{", "}">>,
    <<"type", "id", "=", "id">>, <<"import", "id", ".", "id">>, <<"from", "id", "import", "id">>,
    <<"as", "id">>, <<"let", "id", "=", "int">>, <<"test", "lit", "{", "}">>, <<"export", "lit">>,
    <<"from", "id", "export", "id">>, <<"@", "id">>, <<"#[", "id", "]">>, <<"pub">>,
    <<"opaque", "from", "lit", "export", "id">> }

MCVocabularies == {
    Words("expr", Terms1, FALSE, 5, 0),
    Words("block", Operands, TRUE, 2, 1),
    Words("block", Statements1, TRUE, 2, 1),
    Words("block", Branches, TRUE, 4, 1),
    Words("block", TypeWords, FALSE, 3, 1),
    Words("block", Literals, FALSE, 4, 1),
    Words("program", Declarations1, TRUE, 2, 1) }
=============================================================================
