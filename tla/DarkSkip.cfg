SPECIFICATION Spec
CONSTANTS
    RingSize = 3
    Interval = 1
    MinAge = 2
    Ratio = 60
    MaxTime = 5
    MaxRestarts = 1
    ClockReadings = {2, 8}
INVARIANTS
    TypeOK
    RingIsNewest
    DeletedWasDark
