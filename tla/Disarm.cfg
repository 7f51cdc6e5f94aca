SPECIFICATION Spec
CONSTANTS
    NumIds = 2
    Bodies = {a, b}
    Absent = Absent
    NumStems = 2
    Canonical = 2
    Hooks = {h1, h2}
    MaxCalls = 2
    MaxEdits = 1
    MaxFaults = 1
PROPERTIES ClaimSurvives OkMeansDisarmed
SYMMETRY Alike
CHECK_DEADLOCK FALSE
