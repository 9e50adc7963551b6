SPECIFICATION FairSpec
CONSTANTS
    ChunkDuration = 1
    RefreshPeriod = 1
    Threshold = 90
    Readings <- LowReading
    AudioEnabled = TRUE
    AudioUnit = 2
    Stamp <- MCStamp
    NoName = NoName
    Faults <- AllFaults
    ClockSteps <- NoSteps
    IdrGap = 0
    FrameDelay = 9
    StartWall = 2
    MaxWall = 3
    MaxTime = 1
    MaxTs = 2
    MaxAts = 4
    MaxRel = 1
INVARIANTS
    TypeOK
    NoUseAfterFree
    ShutdownAlone
    VideoNeverRejected
    AudioNeverRejected
    OriginIsFirstPacket
    AudioAfterVideo
    CountersMatchFile
    ChunksClosed
PROPERTIES
    ShutdownCompletes
