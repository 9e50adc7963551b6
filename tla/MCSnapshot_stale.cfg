SPECIFICATION Spec
CONSTANTS
    PerSec = 2
    OldFiles = {}
    NoPicture = NoPicture
    MaxTime = 4
    MaxRequests = 2
    MaxFaults = 0
    MaxSteps = 0
INVARIANT
    FreshPicture
