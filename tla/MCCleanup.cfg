SPECIFICATION Spec
CONSTANTS
    MaxScopes = 4
    MaxDecls = 2
    FeatureSets = {{}, {"withHandle", "dynAllocator", "breakInMatch", "closure"}}
    ContextCapacity = 2
    CallerRoots <- OneRoot
    CallerContexts <- OneContext
INVARIANTS
    TypeOK
    FramesOfScopes
    ContextRestored
PROPERTIES
    ImplementsLexical
CHECK_DEADLOCK FALSE
