\* The three buffers with the constants of MCStd.cfg.
SPECIFICATION Spec
CONSTANTS
    Kinds = {"page", "c", "fixed"}
    PageSize = 3
    InitialCapacity = 3
    Sizes = {0, 1, 3, 8}
    Aligns = {1, 4}
    MaxBlocks = 3
    MaxUsed = 11
INVARIANTS
    BlocksStay
CHECK_DEADLOCK FALSE
