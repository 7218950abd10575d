CONSTANTS
    Raised = {"DISPLAY"}
    NumItems = 1
    CounterMod = 2
    Threads = {t1}
    NoThread = NoThread
SPECIFICATION PathSpec
INVARIANT NoLostWakeup
PROPERTY ImplementsCommandRing
