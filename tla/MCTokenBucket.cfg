CONSTANTS
    Rpm = 3
    Window = 5
    MaxSleep = 1
    MaxTime = 14
SPECIFICATION Spec
INVARIANTS
    AtMostTwiceRpm
CHECK_DEADLOCK FALSE
