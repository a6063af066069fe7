SPECIFICATION FairSpec
CONSTANTS
    Protos = {"lcp", "ncp", "ip", "client"}
    Letters = {"data", "T"}
    MaxBody = 1
    RingSize = 4
    BufSize = 3
    InqMax = 2
    FrameBound = 4
    JobBound = 4
    Pieces = 2
    QueueMax = 2
    PacketBound = 4
    ShortWrites = 1
    Closes = TRUE
    Func = {f1, f2}
    Seconds = {1, 2, 4}
    Bursts = FALSE
    TimeBound = 6
    ListBound = 3
INVARIANTS ReceiveSound NoLostWakeup 
PROPERTIES AllSent 
CHECK_DEADLOCK FALSE
