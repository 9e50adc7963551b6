SPECIFICATION FairSpec
CONSTANTS
    Required = {"recording", "grafana"}
    Grace = 2
    MaxFaults = 1
INVARIANTS
    TypeOK
    NoUseAfterTeardown
    NothingDangles
    ReleasedOnExit
PROPERTY
    SigtermEndsProcess
