SPECIFICATION Spec
CHECK_DEADLOCK FALSE
CONSTANTS
    Abouts = {"chain"}
    Sector = 6
    Header = 2
    Limit = 8
    MinToken = 2
    DefaultBlock = 3
    MaxBlock = 6
    OctetBits = 2
    Rank <- MCRank
    Character = {"a", "b"}
    Longest = 4
    Patterns <- MCPatterns
    Texts <- MCTexts
    o1 = o1
    o2 = o2
    Octet = {o1, o2}
    Messages <- MCMessages
    ReadSize = 9
    Block = 4
    LengthField = 2
    Cell <- MCCell
    Files <- MCFiles
    Plans <- MCPlans
    Extents <- MCExtents
    Ranges <- MCRanges
    ChunkSize = 4
INVARIANTS
    MenuIsFilled
