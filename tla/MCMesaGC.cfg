SPECIFICATION Spec
CONSTANTS
    a1 = a1
    a2 = a2
    a3 = a3
    x = x
    y = y
    s1 = s1
    NULL = NULL
    Foreign = NULL
    Addrs <- MCAddrs
    Locals <- MCLocals
    Slots = {s1}
    Frames <- MCFrames
    Descs <- MCDescs
    Sizes = {1}
    Threshold = 2
INVARIANTS
    ReachableAllocated
    IInv
PROPERTIES
    SweepExact
    ImplementsTracedHeap
CHECK_DEADLOCK FALSE
SYMMETRY Symmetry
