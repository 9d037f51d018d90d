CONSTANTS
    MaxChunk = 2
    MaxBytes <- MCMaxBytes
    Timed = {"b"}
SPECIFICATION FairSpec
CHECK_DEADLOCK FALSE
PROPERTIES
    IsHalfStream
    CloseReleases
