\* An SFTP upload to a local file beside an SCP upload that is staged, with a
\* size limit between its two lengths, and a client that writes behind its own CLOSE.
CONSTANTS
    u1 = u1
    u2 = u2
    u3 = u3
    Uploads <- Slotted
    Scp <- JustFirst
    Local <- JustSecond
    Chunks <- TwoChunks
    Announced <- ShortAndLong
    Oversize <- LastChunk
    MaxConcurrentUploads = 2
    LateWrites = TRUE
    None = None
    Nothing = Nothing
SPECIFICATION FairSpec
CHECK_DEADLOCK FALSE
INVARIANTS
    TypeOK
    SlotsAreHeld
    AbandonedIsNotPublished
    PublishedIsWhole
    NothingIsLeftBehind
PROPERTIES
    ImplementsAtomicPut
    DroppedUploadsSettle
