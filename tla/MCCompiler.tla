----------------------------- MODULE MCCompiler -----------------------------
(***************************************************************************)
(* The compiler at work on a program, seen at one of its passes: the       *)
(* tokenizer and the parser (Syntax), the inference of error sets          *)
(* (ErrorSets, whose variables and constants keep their names here), the   *)
(* regions of the checker (Regions), or the lowering of expressions to C   *)
(* (Lowering), each over the programs that exercise it.                    *)
(***************************************************************************)
EXTENDS MCErrorSets

CONSTANTS Vocabularies,                         \* of Syntax
          Allocators, Regional, Loops,          \* of Regions
          FunKinds, FirstTrue, Lowerable, Turns \* of Lowering

VARIABLES
    vocab, first, rest, left, tree,                 \* Syntax
    lives, step, checked, escapes, misplaced,       \* Regions
    body, fallible, stage, code, inMesa, inC,       \* Lowering
    pass

syntax == <<vocab, first, rest, left, tree>>
regions == <<lives, step, checked, escapes, misplaced>>
lowering == <<body, fallible, stage, code, inMesa, inC>>

S == INSTANCE MCSyntax
R == INSTANCE MCRegions WITH Programs <- Regional, Turns <- Loops, body <- lives, phase <- step
L == INSTANCE MCLowering WITH Programs <- Lowerable, Kinds <- FunKinds, phase <- stage

\* The programs (values of the constants of this name): those the modules for
\* one pass name, which depend on none of their constants.
SP == INSTANCE MCSyntax WITH Vocabularies <- {}
RP == INSTANCE MCRegions WITH Allocators <- {}, Programs <- {}, Turns <- 0, body <- lives, phase <- step
LP == INSTANCE MCLowering WITH Kinds <- {}, FirstTrue <- {}, Programs <- {}, Turns <- 0, phase <- stage

SyntaxVocabularies == SP!MCVocabularies
RegionAllocators == RP!MCAllocators
RegionPrograms == RP!MCPrograms
LoweringKinds == LP!MCKinds
LoweringAnswers == LP!MCAnswers
LoweringPrograms == LP!MCPrograms

CompilerInit ==
    /\ S!Init /\ Init /\ R!Init /\ L!Init
    /\ pass \in {"syntax", "errors", "regions", "lowering"}
    /\ pass # "syntax" => vocab = CHOOSE v \in Vocabularies : TRUE

CompilerNext ==
    \/ pass = "syntax" /\ S!Next /\ UNCHANGED <<vars, regions, lowering, pass>>
    \/ pass = "errors" /\ Next /\ UNCHANGED <<syntax, regions, lowering, pass>>
    \/ pass = "regions" /\ R!Next /\ UNCHANGED <<syntax, vars, lowering, pass>>
    \/ pass = "lowering" /\ L!Next /\ UNCHANGED <<syntax, vars, regions, pass>>

CompilerSpec == CompilerInit /\ [][CompilerNext]_<<syntax, vars, regions, lowering, pass>>

-----------------------------------------------------------------------------
\* The variables of each pass have their types: trees have the shape the passes
\* after the parser rely on; scopes and allocators are popped as they were
\* pushed; no temporary of the C is read before it is set.
CompilerTypeOK == S!TypeOK /\ TypeOK /\ R!TypeOK /\ L!TypeOK

\* Operators group by their strength and side, however many follow one another,
\* and a chain of comparisons compares each neighbour
\* (_parse_expr_precedence, _parse_comparison_chain).
Grouped == S!Grouped

\* No statement and no declaration reads on past a semicolon, whatever follows
\* it; an if without an else, which looks for its else, is the exception
\* (_parse_stmt, _parse_program).
SemicolonEnds == S!SemicolonEnds

\* Nor past a line break after a token that ends statements, unless the next
\* line begins with one that continues them (tokenize); return and break are
\* the exception.
LineEnds == S!LineEnds

\* In a function the analysis is precise about (no joins, calls or loops that
\* lose a region, no assignment in a value that is assigned), no value the checker accepts is left in a variable, a result
\* or a return value after a cleanup has taken its memory.
LexicalKept == R!LexicalKept

\* And such a function, if its values go directly and nothing in it is dead, is
\* rejected only if its run puts a value where it outlives its memory, be it
\* overwritten before the cleanup (_ensure_region_can_escape).
RejectedEscapes == R!RejectedEscapes

\* The C the generator writes makes the calls of the function in an order the
\* function may make them, each as often, and returns what it returns, wherever
\* no line moves past a condition and nothing that calls is written twice.
FaithfulAsWritten == L!FaithfulAsWritten
=============================================================================
