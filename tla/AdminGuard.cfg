SPECIFICATION Spec
CONSTANTS
    GroupNames = {g, h}
    MachineIds = {m}
    Formats = {f}
    Keys <- MCKeys
    None = None
    Absent = Absent
    Clients = {c}
    MaxRequests = 1
    MaxEdits = 1
    MaxFaults = 1
INVARIANTS RefusalIsJust
PROPERTIES KeptBreaksNothing RefusedIsUndone
CHECK_DEADLOCK FALSE
