SPECIFICATION FairSpec
CONSTANTS
    NightThresh = 10
    DayThresh = 8
    IrThresh = 30
    IrLedOff = FALSE
    GraceTicks = 3
    NightRc = TRUE
    NightFps = TRUE
    NightDenoise = TRUE
    DayFps = TRUE
    Evs = {4, 9, 16, 26, 40}
    FirstEvs = {4, 9}
    Illuminated = 26
    Works = TRUE
    Patient = TRUE
    MaxLights = 2
    MaxSignals = 1
    MaxRestarts = 1
    MaxFaults = 1
INVARIANTS
    TypeOK
    EncoderFollowsMode
PROPERTIES
    ModeFollowsLight
    LedsSettle
    DeadLedsReported
    FilterFollowsLight
