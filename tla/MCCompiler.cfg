SPECIFICATION CompilerSpec
CONSTANTS
    Vocabularies <- SyntaxVocabularies
    Order <- MCOrder
    Errors <- MCErrors
    Names <- MCNames
    Nesting = 2
    Definitions <- MCDefinitions
    Allocators <- RegionAllocators
    Regional <- RegionPrograms
    Loops = 2
    FunKinds <- LoweringKinds
    FirstTrue <- LoweringAnswers
    Lowerable <- LoweringPrograms
    Turns = 4
INVARIANTS
    CompilerTypeOK
    Grouped
    SemicolonEnds
    LineEnds
    Converged
    RaisedDeclared
    BindingsHold
    LexicalKept
    RejectedEscapes
    FaithfulAsWritten
CHECK_DEADLOCK FALSE
