SPECIFICATION FairSpec
CONSTANTS
    a = a
    b = b
    Names = {a, b}
    MaxSize = 2
    MaxDepth = 2
    MaxEntries = 3
    SkipsRefused = FALSE
    Trees <- SmallTrees
INVARIANTS
    TypeOK
    InSync
    NeverBothWaiting
    FilesLandWhereSent
    SuccessIsTrue
PROPERTIES
    SessionEnds
CHECK_DEADLOCK FALSE
