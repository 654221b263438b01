SPECIFICATION Spec
CONSTANTS
    Mss = 3
    InitSsthresh = 20
    MaxCwnd = 40
    InitCwnd = 12
    MaxSeq = 6
    MaxDups = 5
    CubicMss = 2
    CubicSsthresh = 8
    CubicMaxCwnd = 24
    MaxTime = 5
    BbrMss = 1
    Rates = {2, 6}
    Rtts = {1, 2}
    Unit = 1
    FilterLen = 2
    RtWindow = 2
    ProbeRttTime = 1
    Scale = 2
    Samples = {0, 1, 10, 140}
    MaxSamples = 4
    A = A
    B = B
    ActiveOpeners = {A}
    ClosesIn = {"ESTABLISHED", "CLOSE_WAIT"}
    MaxOpens = 3
    Msl = 2
    DataAcks = 0
    IdleTimeout = 3
    Interval = 2
    MaxProbes = 3
    Word = 4
    Isns = {0, 1, 3}
    MaxSyns = 2
    MaxAnswers = 2
    Dscp = {0, 46}
    NoDscp = NoDscp
    TcpConn = {tcp1, tcp2}
    UdpConn = {udp1}
    Slots = 2
    IdleLimit = 2
    Dest = {d1, d2}
    Capacity = 2
    Plateaus = {68, 296, 508}
    LinkMtu = 600
    PathMtus = {68, 400, 600}
    PmtudInterval = 1
    MaxChanges = 2
    Routers = {a, b}
    MaxHops = 3
    MaxResults = 3
    TtlMod = 4
INVARIANTS TypeOK WindowsAreAccounted TimerFollowsSamples EstablishedIsMutual FinsAreAgreed JudgedOnEvidence PathsAreKnown
PROPERTIES AimdSpec ControllersMakeProgress QuietAfterTimeWait ConnectionsComplete ProbingSucceeds
CHECK_DEADLOCK FALSE
