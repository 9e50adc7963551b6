SPECIFICATION FairSpec
CONSTANTS
    f1 = f1
    f2 = f2
    None = None
    Files <- TwoFiles
    Black <- OneBlack
    DarkSkip = TRUE
    ChunkBytes = 2
    MinSize = 1
    MinAge = 3
    MaxFiles = 1
    MaxPause = 1
    ClockSteps = {1, 2}
    MaxJump = 1
    MaxSize = 3
    MaxTime = 6
    MaxFaults = 1
    MaxRestarts = 1
INVARIANTS
    TypeOK
    Accounted
    OnlyClosedFiles
PROPERTIES
    EventuallyGone
