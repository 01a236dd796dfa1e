\* Slots that hold any bytes; pages of three bytes, allocations smaller and
\* larger than the doubled capacity, an alignment that pads; a writer's buffer
\* of two bytes with short drains and failures; two objects of two words, two
\* sizes and pointers the collector does not own.
SPECIFICATION StdSpec
CONSTANTS
    Capacity = 4
    Kinds = {"page", "c", "fixed"}
    PageSize = 3
    InitialCapacity = 3
    Sizes = {0, 1, 3, 8}
    Aligns = {1, 4}
    MaxBlocks = 3
    MaxUsed = 11
    Cap = 2
    MaxBytes = 6
    MaxDrained = 6
    lone = lone
    word1 = word1
    word2 = word2
    NULL = NULL
    Foreign = Foreign
    Addrs = {a1, a2}
    Locals = {lone}
    PayloadWords = {word1, word2}
    Frames <- OneFrame
    Descs <- TwoWords
    ObjectSizes = {1, 2}
    Threshold = 2
INVARIANTS
    StdTypeOK
    FreeListExact
    BlocksPlaced
    WithinBuffer
    StreamExact
    FirstInOrder
    BytesExact
PROPERTIES
    ImplementsSlotPool
    CallsReturn
    AllocReturns
CHECK_DEADLOCK FALSE
