SPECIFICATION Spec
CONSTANTS
    NumIds = 1
    Bodies = {a, b}
    Absent = Absent
    NumStems = 1
    Canonical = 1
    Hooks = {h}
    MaxCalls = 1
    MaxEdits = 0
    MaxFaults = 0
PROPERTY NothingDestroyed
CHECK_DEADLOCK FALSE
