CONSTANTS
    Width = 4
    Height = 2
    VgaPads = {0}
    QxlPads = {0, 1}
    BitsBufMax = 3
    CursorRoom = 5
    CursorSizes = {1, 2, 3}
    MaxFailures = 1
SPECIFICATION Spec
INVARIANTS
    TypeOK
    NothingKept
    ShowsTheDesktop
