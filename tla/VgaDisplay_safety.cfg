CONSTANTS
    Base = 10
    Sizes = {1, 2, 3}
    NoMapping = NoMapping
SPECIFICATION Spec
INVARIANTS
    TypeOK
    CommittedIsMapped
    HiddenIsBlack
PROPERTY ReleasesBlackScreen
