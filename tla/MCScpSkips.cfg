SPECIFICATION Spec
CONSTANTS
    a = a
    b = b
    Names = {a, b}
    MaxSize = 0
    MaxDepth = 2
    MaxEntries = 3
    SkipsRefused = TRUE
    Trees <- SmallTrees
INVARIANTS
    FilesLandWhereSent
CHECK_DEADLOCK FALSE
