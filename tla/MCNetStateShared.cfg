SPECIFICATION MCSpec
CONSTANTS
    Parts = {"multicast"}
    \* Multicast
    Hosts = {"A", "B"}
    Socks = {"a", "c"}
    HostOf <- mcHostOf
    Groups = {"g1", "g2"}
    Joins <- mcJoins
    Tuned = {"a"}
    Reuse = {}
    MaxDelay = 2
    Shortages = {"inm", "ioctl"}
    Limits <- mcLimits
    MaxQueue = 2
    \* InPcb
    UdpSocks = {"s1", "s2", "s3"}
    Laddrs = {"a1", "a2"}
    Faddrs = {"f1"}
    FirstLaddr = "a1"
    LocalFor <- mcLocalFor
    MinPort = 1
    MaxPort = 1
    Fport = 1
    Shared = {"s3"}
    HashSize = 2
    \* Arp
    Neighbours = {"h1"}
    Gateway = "h1"
    RtMax = 4
    Caches = {"c1", "c2"}
    DstOf <- mcDstOf
    Macs = {"m1"}
    Packets = {"p1", "p2"}
    arpt_keep = 2
    arpt_down = 2
    arpRxmitTicks = 1
    arp_maxtries = 1
    EndOfTime = 3
    \* SockBuf
    sb_hiwat = 5
    sb_mbmax = 4
    extSize = 4
    CL_SIZE_MIN = 2
    Chains <- mcChains
    Requests <- mcRequests
    MaxBytes = 6
    MaxDgrams = 3
    \* Socket
    Listener = "l"
    Conns = {"c1", "c2"}
    Tasks = {"t1", "t2"}
    qlimit = 1
    hiwat = 1
    LingerOf <- mcLingerOf
    MaxData = 1
INVARIANT RecordsLive
CHECK_DEADLOCK FALSE
