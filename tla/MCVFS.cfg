\* One channel over two kinds of backend, or two channels of one connection.
CONSTANTS
    a = a
    b = b
    Channels = {c1, c2}
    Names <- TwoNames
    Paths <- SmallTree
    Setups <- EverySetup
    Files <- InnerFile
    Dirs <- TopDir
    MaxLocs = 2
    None = None
    Absent = Absent
SPECIFICATION Spec
SYMMETRY Interchangeable
INVARIANTS
    TypeOK
    CacheIsTrue
PROPERTIES
    NotFoundIsTrue
    ListingIsFresh
    GoneIsForgottenAlone
    RemovesWhatItNames
