SPECIFICATION Spec
CONSTANTS
    Allocators <- MCAllocators
    Programs <- Joined
    Turns = 2
INVARIANTS
    NothingEscapes
CHECK_DEADLOCK FALSE
