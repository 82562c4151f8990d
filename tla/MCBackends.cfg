SPECIFICATION Spec
CONSTANTS
    c1 = c1
    c2 = c2
    Clients = {c1, c2}
    None = None
    Names <- TwoNames
    Members <- OneMember
    KeyOrder <- Alphabetical
    Setups <- Deployments
    MaxCalls = 2
    MaxOutside = 1
    MaxCrashes = 1
SYMMETRY Symmetry
CHECK_DEADLOCK FALSE
INVARIANTS
    TypeOK
    ListingIsHonest
    HiddenFilesAreUploads
PROPERTIES
    DoesWhatItSays
    ReadOnlyIsKept
