\* One staged SFTP upload whose second chunk is past the size limit.
CONSTANTS
    u1 = u1
    u2 = u2
    u3 = u3
    Uploads <- JustFirst
    Scp <- Nobody
    Local <- Nobody
    Chunks <- TwoChunks
    Announced <- WholeFile
    Oversize <- LastChunk
    MaxConcurrentUploads = 1
    LateWrites = FALSE
    None = None
    Nothing = Nothing
SPECIFICATION Spec
CHECK_DEADLOCK FALSE
INVARIANTS
    IncompleteIsNeverSent
