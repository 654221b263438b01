SPECIFICATION Spec
CONSTANTS
    Byte = {b0, b1}
    SwWord = 12
    SwIsns = {4}
    WindowSize = 3
    BufCap = 4
    MaxSent = 7
    RqMss = 2
    RqCapacity = 2
    RqWord = 16
    Isn = 0
    Rtos = {1}
    RqBytes = 3
    PartialAcks = FALSE
    Capacity = 2
    Interval = 1
    Total = 3
    Mss = 2
    Delay = 1
    MaxBytes = 5
    Reorders = FALSE
    Half = 4
    SndWnd = 3
    Isns = {6}
    TcbBytes = 9
    MaxBlocks = 3
    SackWord = 8
    InitialAck = 1
    MaxSeq = 7
INVARIANTS TypeOK NeededBytesAreHeld BoardIsExact AcksRelease CountersAreExact PromisesAreKept
PROPERTY BytesGetThrough
CHECK_DEADLOCK FALSE
