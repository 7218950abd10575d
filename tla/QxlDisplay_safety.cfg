CONSTANTS
    RomModes <- MCRomModes
    CustomSizes = {4, 5, 6, 9}
    MinSize = 2
    SurfaceArea = 8
    NoMode = NoMode
    ResumeMayFail = FALSE
SPECIFICATION Spec
INVARIANTS
    TypeOK
    NothingLeaks
    ReadyToDraw
    LastTwoOffered
PROPERTY CommitsAreSet
