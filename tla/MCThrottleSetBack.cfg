CONSTANTS
    FreeUnlockAttempts = 1
    BaseUnlockDelay = 1
    MaxUnlockDelay = 4
    MaxUnlockDoublings = 3
    FileErrors = FALSE
    Setbacks = {6}
    MaxShift = 6
    Horizon = 14
    MaxFailures = 5
SPECIFICATION ThrottleSpec
INVARIANTS NotParked
CHECK_DEADLOCK FALSE
