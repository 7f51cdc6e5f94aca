SPECIFICATION Spec
CONSTANTS
    FileSize = 2
    BlockSize = 2
    Wrap = 4
    MaxRetries = 6
    MaxFaults = 6
PROPERTIES FailsOnlyOnSilence
CHECK_DEADLOCK FALSE
