SPECIFICATION Spec
CONSTANTS
    PerSec = 2
    OldFiles <- MCOldFiles
    NoPicture = NoPicture
    MaxTime = 3
    MaxRequests = 3
    MaxFaults = 1
    MaxSteps = 1
INVARIANTS
    TypeOK
    
    LeftoversAreFailures
    ChannelFree
