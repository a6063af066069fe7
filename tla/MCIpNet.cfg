SPECIFICATION MCSpec
CONSTANTS
    Nodes <- mcNodes
    IfAddrs <- mcIfAddrs
    LinkOf <- mcLinkOf
    Mtu <- mcMtu
    InitRoutes <- mcInitRoutes
    Plans <- mcPlans
    Forwards = {"R1", "R2"}
    OptWords = 1
    BCAST = "bcast"
    IdMod = 8
    DefTtl = 4
    IpFragTtl = 2
    Room = 9
INVARIANTS  AnswersRetrace PacketsDie
CHECK_DEADLOCK FALSE
