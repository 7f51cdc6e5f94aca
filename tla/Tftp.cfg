SPECIFICATION FairSpec
CONSTANTS
    FileSize = 8
    BlockSize = 2
    Wrap = 4
    MaxRetries = 6
    MaxFaults = 3
INVARIANTS SentMeansReceived NoApprentice
PROPERTIES AlwaysEnds Completes
CHECK_DEADLOCK FALSE
