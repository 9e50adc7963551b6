SPECIFICATION Spec
CONSTANTS
    NightThresh = 10
    DayThresh = 8
    IrThresh = 30
    IrLedOff = FALSE
    GraceTicks = 3
    NightRc = TRUE
    NightFps = TRUE
    NightDenoise = TRUE
    DayFps = TRUE
    Evs = {4, 9, 16, 26, 40}
    FirstEvs = {26}
    Illuminated = 6
    Works = FALSE
    Patient = FALSE
    MaxLights = 0
    MaxSignals = 0
    MaxRestarts = 0
    MaxFaults = 0
INVARIANTS
    EncoderFollowsMode
