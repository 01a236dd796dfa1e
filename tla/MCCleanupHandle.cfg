SPECIFICATION Spec
CONSTANTS
    MaxScopes = 3
    MaxDecls = 2
    FeatureSets = {{"withHandle"}}
    ContextCapacity = 2
    CallerRoots <- OneRoot
    CallerContexts <- OneContext
INVARIANTS
    CleanupOnce
CHECK_DEADLOCK FALSE
