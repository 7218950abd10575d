CONSTANTS
    Word = 2
    MinChunk = 8
    SmallLimit = 16
    StateSize = 8
    TopFoot = 2
    Capacity = 58
    Width = 256
    Requests = {1, 8, 13, 20}
SPECIFICATION Spec
INVARIANT WellFormed
PROPERTY ImplementsHeap
