SPECIFICATION Spec
CONSTANTS
    GroupNames = {g}
    MachineIds = {m}
    Formats = {f1, f2}
    Keys <- AcrossFormats
    None = None
    Absent = Absent
    Clients = {c}
    MaxRequests = 1
    MaxEdits = 0
    MaxFaults = 0
PROPERTY KeptIsServable
CHECK_DEADLOCK FALSE
