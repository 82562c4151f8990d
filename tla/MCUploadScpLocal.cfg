\* One SCP upload to a local file.
CONSTANTS
    u1 = u1
    u2 = u2
    u3 = u3
    Uploads <- JustFirst
    Scp <- JustFirst
    Local <- JustFirst
    Chunks <- TwoChunks
    Announced <- WholeFile
    Oversize <- NoChunk
    MaxConcurrentUploads = 1
    LateWrites = FALSE
    None = None
    Nothing = Nothing
SPECIFICATION Spec
CHECK_DEADLOCK FALSE
INVARIANTS
    NothingIsLeftBehind
