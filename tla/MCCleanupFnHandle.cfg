SPECIFICATION Spec
CONSTANTS
    MaxScopes = 3
    MaxDecls = 2
    FeatureSets = {{}}
    ContextCapacity = 2
    CallerRoots <- OneRoot
    CallerContexts <- OneContext
INVARIANTS
    HandleBeforeCleanup
CHECK_DEADLOCK FALSE
