SPECIFICATION Spec
CONSTANTS
    Address = {a1, a2, a3}
    Thread = {t1, t2}
    MaxFailures = 2
    FailureWindow = 2
    BaseBlock = 2
    MaxBlock = 3
    MaxDoublings = 1
    MaxTracked = 2
    Conn = {c1, c2}
    Workers = 2
    MaxCaptures = 1
    LastSecond = 1
    LastLife = 1
    MaxConnections = 2
    Configs <- MCConfigs
    Peer = {p1, p2}
    MaxTransfers = 4
    MaxPerPeer = 2
    DataPorts = 2
INVARIANTS TypeOK GuessesBounded CapturesBounded RefusedForItsOwnToken SlotsAreCounted ServingIsWhole
PROPERTIES BlockStands BlockIsEarned EvidenceKept EveryConnectionEnds PeerLetInAgain
CHECK_DEADLOCK FALSE
