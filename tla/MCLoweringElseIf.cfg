SPECIFICATION Spec
CONSTANTS
    Kinds <- MCKinds
    FirstTrue <- MCAnswers
    Programs <- ElseIf
    Turns = 4
INVARIANTS
    AsWritten
CHECK_DEADLOCK FALSE
