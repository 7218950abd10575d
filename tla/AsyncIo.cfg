CONSTANTS
    Raised = {"DISPLAY", "ERROR"}
    Kickers = {k1}
    Settings = {s1, s2}
    MaxTimeouts = 1
    MaxDevice = 2
    MaxOthers = 1
SPECIFICATION Spec
INVARIANTS
    TypeOK
    PendingHasDpc
    PendingHoldsLine
    OneAtATime
    ShowsWhatWasAsked
PROPERTIES
    RingsEveryBell
    EveryCallReturns
