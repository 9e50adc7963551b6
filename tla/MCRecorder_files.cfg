SPECIFICATION Spec
CONSTANTS
    ChunkDuration = 3
    RefreshPeriod = 3
    Threshold = 90
    Readings <- AllReadings
    AudioEnabled = FALSE
    AudioUnit = 2
    Stamp <- MCStamp
    NoName = NoName
    Faults <- OpenFaults
    ClockSteps <- ForwardSteps
    IdrGap = 2
    FrameDelay = 1
    StartWall = 3
    MaxWall = 9
    MaxTime = 6
    MaxTs = 0
    MaxAts = 4
    MaxRel = 3
INVARIANTS
    OriginIsIdr
PROPERTIES
    FreshDiskReading
    RotatesOnTime
    ImplementsStore
