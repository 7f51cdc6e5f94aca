SPECIFICATION Spec
CONSTANTS
    GroupNames = {g}
    MachineIds = {m}
    Formats = {f}
    Keys <- MCKeys
    None = None
    Absent = Absent
    Clients = {c1, c2}
    MaxRequests = 2
    MaxEdits = 0
    MaxFaults = 0
INVARIANT StoreNeverLeftBroken
CHECK_DEADLOCK FALSE
