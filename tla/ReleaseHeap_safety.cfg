CONSTANTS
    Threads = {t1, t2}
    Blocks = {b1, b2, b3, b4}
    None = None
    MaxPlan = 3
    ReleaseBatch = 4
    ReleaseRingSize = 2
    MaxPowerCycles = 1
SYMMETRY Symmetric
SPECIFICATION Safety
INVARIANTS
    TypeOK
    EveryBlockHasOneOwner
    EveryOutputIsInOnePlace
    FreesOnlyAllocated
