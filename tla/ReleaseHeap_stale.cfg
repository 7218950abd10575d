CONSTANTS
    Threads = {t1, t2}
    Blocks = {b1, b2, b3}
    None = None
    MaxPlan = 2
    ReleaseBatch = 2
    ReleaseRingSize = 2
    MaxPowerCycles = 1
SYMMETRY Symmetric
SPECIFICATION Safety
INVARIANT FreesOnlyAllocated
