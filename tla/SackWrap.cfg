SPECIFICATION Spec
CONSTANTS
    MaxBlocks = 2
    Word = 8
    InitialAck = 6
    MaxSeq = 10
INVARIANT ReportedIsSacked
CHECK_DEADLOCK FALSE
