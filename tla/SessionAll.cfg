SPECIFICATION FairSpec
CONSTANTS
    o1 = o1
    o2 = o2
    o3 = o3
    NoOp = NoOp
    Ops <- MCOps
    Keys <- MCOps
    KeyOf <- MCDistinct
    EventBufferSize = 2
CHECK_DEADLOCK FALSE
INVARIANTS Cancelable DestroyAfterJoin
PROPERTIES AllLeave
