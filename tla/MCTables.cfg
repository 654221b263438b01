SPECIFICATION Spec
CONSTANTS
    Ip = {ip1, ip2, ip3}
    Mac = {mac1, mac2}
    ArpCapacity = 2
    ArpTimeout = 1
    Host = {h1, h2}
    Group = group
    Visitor = h3
    FdbPorts = {1, 2}
    FdbCapacity = 2
    FdbMaxAge = 0
    BridgePorts = 3
    BridgeSlots = 1
    BridgeAging = 0
    Vlan = {1, 2}
    SwConfigs <- PortConfigs
    SwMaskBits = 64
    SwPorts = 2
    SwSlots = 1
    \* three full units and a half; MTUs that come round, that carry none, one and
    \* two units, so that a later fragment is cut again and one cut needs too many,
    \* and one that would take the packet whole if it fitted a fragment's array
    FragSize = 28
    FragMtus = {19, 20, 31, 36, 48}
    FragCap = 24
    FragOutSizes = {47, 48, 60}
    MaxFrags = 3
    MaxGot = 4
    Inside = {in1, in2}
    Remote = {r1, r2}
    NatCapacity = 2
    \* two entries and three ports: the ports go round while an entry is kept alive
    PortStart = 2
    NatPorts = 3
    Timeout = 1
    NatMade = 4
    NatNow = 2
    LpmWidth = 2
    NextHop = {hop1, hop2}
    LpmCapacity = 3
    RtWidth = 1
    Gateway = {gw}
    Metrics = {1, 2}
    RtCapacity = 3
    Headers <- SomeHeaders
    HpackSlots = 3
    FieldMax = 80
    TableMax = 110
    Uri = {u1, u2}
    Ring = 2
    MaxRequests = {0, 2}
    MaxSent = 5
    CookieName = {n1}
    CookieValue = {v1, v2}
    CookieDomains <- SetDomains
    CookiePaths <- SetPaths
    RequestHosts <- AskedDomains
    RequestPaths <- AskedPaths
    Ages <- SomeAges
    JarCapacity = 3
    OutSizes = {4, 8, 9, 20}
    MaxFds = 2
    BufSize = 2
    MaxBytes = 3
    MaxWritten = 1
    Bridges = {1, 2, 3}
    Links = {{1, 2}, {1, 3}, {2, 3}}
    Cost <- TriangleCost
    Horizon = 4
INVARIANTS TypeOK TrafficFollowsTheHosts FramesStayInside PacketsGoWhereTheyShould QueuesKeepOrder ViewsAreCurrent
PROPERTY ElectionConverges
CHECK_DEADLOCK FALSE
