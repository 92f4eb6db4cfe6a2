CONSTANTS
    Programs <- TwoFedBack
    Samples = {0, 1}
    Settings = {0, 2, 5}
    MaxDelay = 3
    MaxLoads = 1
    MaxTime = 4
SPECIFICATION Spec
INVARIANTS
    OutputIsDenoted
CHECK_DEADLOCK FALSE
