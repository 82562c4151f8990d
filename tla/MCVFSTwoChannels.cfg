\* Two channels of one connection.
CONSTANTS
    a = a
    b = b
    Channels = {c1, c2}
    Names <- TwoNames
    Paths <- SmallTree
    Setups <- WideShared
    Files <- InnerFile
    Dirs <- TopDir
    MaxLocs = 0
    None = None
    Absent = Absent
SPECIFICATION Spec
PROPERTY GoneIsForgotten
