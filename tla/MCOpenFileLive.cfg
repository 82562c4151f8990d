CONSTANTS
    Readers = {r1, r2}
    Sizers = {r1}
    None = None
    Unknown = Unknown
    Offsets <- MCOffsets
    Sizes <- OneSize
SPECIFICATION FairSpec
PROPERTIES
    WaitersAreLetThrough
    CloseEndsItsReads
