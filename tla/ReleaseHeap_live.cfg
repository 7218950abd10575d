CONSTANTS
    Threads = {t1, t2}
    Blocks = {b1, b2, b3}
    None = None
    MaxPlan = 2
    ReleaseBatch = 1
    ReleaseRingSize = 2
    MaxPowerCycles = 0
SPECIFICATION Spec
INVARIANT EveryOutputIsInOnePlace
PROPERTY EveryCommandIsPushed
