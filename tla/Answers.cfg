SPECIFICATION FairSpec
CONSTANTS
    Threads = {w, r}
    Writers = {w}
    AnswerSets = {a}
    Nothing = Nothing
    Backstop = 2
    LoadTicks = 1
    MaxEpoch = 2
    MaxVersion = 1
INVARIANTS OwedIsServed EntryHonoursVersion
PROPERTIES BoundedStaleness EditEventuallyServed
