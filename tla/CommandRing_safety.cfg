CONSTANTS
    NumItems = 2
    CounterMod = 4
    Threads = {t1, t2}
    NoThread = NoThread
    RingEvent = "DISPLAY"
    TimedWait = TRUE
    SharedEvent = TRUE
SYMMETRY ThreadSymmetry
SPECIFICATION Safety
INVARIANTS
    TypeOK
    NoOverrun
    NoLostKick
PROPERTY IsBoundedQueue
