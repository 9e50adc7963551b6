SPECIFICATION Spec
CONSTANTS
    IdleMax = 1
    ServerIdle = 2
    Framings <- Polite
    MaxCalls = 3
    MaxTime = 5
INVARIANTS
    TypeOK
    OkMeansAccepted
    RetryIsFresh
    NoSpuriousFailure
