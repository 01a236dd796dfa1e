SPECIFICATION Spec
CONSTANTS
    x = x A = A B = B
    Names = {x}
    Params = {}
    Variants = {A, B}
    MaxNodes = 5
    MaxDepth = 2
INVARIANTS TypeOK AssignedBeforeUse PathsReturn AcceptedMatchTotal
CHECK_DEADLOCK FALSE
