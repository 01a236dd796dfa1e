SPECIFICATION Spec
CONSTANTS
    Order <- MCOrder
    Errors <- MCErrors
    Names <- MCNames
    Nesting = 2
    Definitions <- MCDefinitions
INVARIANT NothingLost
CHECK_DEADLOCK FALSE
