CONSTANTS
    NumItems = 1
    CounterMod = 2
    Threads = {t1, t2}
    NoThread = NoThread
    RingEvent = "DISPLAY"
    TimedWait = FALSE
    SharedEvent = FALSE
SPECIFICATION Spec
INVARIANT NoLostWakeup
PROPERTY ServesEveryCommand
