SPECIFICATION FairSpec
CONSTANTS
    Byte = {x, y}
    MaxData = 2
    MaxSegs = 3
    RecvBuf = 4
    WindowArg = 2
    Word = 8
INVARIANTS TypeOK DeliveredIsPrefix BaseFollowsReceiver AckedBytesAreHeld
PROPERTIES PipeSpec EverythingAcked
CHECK_DEADLOCK FALSE
