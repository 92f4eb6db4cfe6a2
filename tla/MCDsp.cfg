CONSTANTS
    Programs <- ThePrograms
    Samples = {0, 1}
    Settings = {0, 5}
    MaxDelay = 3
    MaxLoads = 2
    MaxTime = 4
SPECIFICATION Spec
INVARIANTS
    OutputIsDenoted
    ParsesBack
CHECK_DEADLOCK FALSE
