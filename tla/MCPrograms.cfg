SPECIFICATION MCSpec
CONSTANTS
    \* Mbuf
    Pkts = {"p1", "p2"}
    Clusters = {1, 2, 3, 4}
    extSz = 4
    max_linkhdr = 1
    max_protohdr = 2
    Totals = {2, 5}
    Lens = {1, 3}
    MaxMbufOps = 4
    \* VjCompress
    StateCounts = {1, 2}
    c1 = c1
    c2 = c2
    VjConns <- mcConns
    SeqSpace = 8
    DeltaMax = 3
    IdSpace = 3
    CompressCid = TRUE
    MaxPackets = 4
    \* DosPart
    Callers = {"t1"}
    Devices <- mcDevices
    disk <- mcDisk
    heads = 2
    sectors = 3
    MaxCalls = 2
    \* PppSecrets
    SecretEntries <- mcSecrets
    AuthFiles <- mcFiles
    Users = {"joe"}
    our_name = "us"
    remote_name = "joe"
    Passwords = {"s1", "c2"}
    atfile <- mcAtfile
    Crypted <- mcCrypted
    MaxSecrets = 2
    MaxLookups = 2
    \* Demos
    Programs = {"msgQ", "synchronize", "mutexSem", "sharedQ", "pipeServer", "recoverExc",
                "select", "counting", "binary", "deadline", "buff", "memPart", "smSem"}
    Rounds = 3
    PipeSize = 2
    MaxRequests = 4
    Deadline = 5
SYMMETRY Interchangeable
INVARIANTS
     HeadersRestored PartitionsExact  DemosCorrect
CHECK_DEADLOCK FALSE
