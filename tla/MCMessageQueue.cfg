SPECIFICATION Spec
CONSTANTS
    NumLevels = 3
    Ratio <- MCRatio
    Msg <- MCMsg
    LevelOf <- MCLevelOf
    TagOf <- MCTagOf
    ScreenOf <- MCScreenOf
    NoTag = "none"
    NotContent = "notcontent"
    PBTag = "pb"
    Flusher = {"f"}
    Expiring = {"e", "c"}
    Starving = {"p", "c"}
    InteractiveLevel = 2
    Open = 0
    Closed = 1
INVARIANTS
    TypeOK
    RatioIsKept
    NoWorkWhileAsleep
PROPERTIES
    AtMostOneSkipped
    FlushReachesAll
    QueueDrains
