\* One call at a bucket, and nobody else there.
CONSTANTS
    c1 = c1
    c2 = c2
    Clients = {c1, c2}
    None = None
    Names <- TwoNames
    Members <- OneMember
    KeyOrder <- Alphabetical
    Setups <- JustS3
    MaxCalls = 1
    MaxOutside = 0
    MaxCrashes = 0
SPECIFICATION Spec
CHECK_DEADLOCK FALSE
PROPERTIES
    RenamesOntoFreeNames
