CONSTANTS
    MaxPaths = 2
    FailureClears = TRUE
SPECIFICATION Spec
INVARIANTS
    TypeOK
    NothingKept
    NoMisuse
    EarlyQuitFails
