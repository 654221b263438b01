SPECIFICATION Spec
CONSTANTS
    Mss = 2
    Capacity = 2
    Word = 16
    Isn = 0
    Rtos = {1, 2}
    MaxBytes = 3
    PartialAcks = TRUE
INVARIANT UnheldBytesAreQueued
CHECK_DEADLOCK FALSE
