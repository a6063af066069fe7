SPECIFICATION MCSpec
CONSTANTS
    MINMRU = 1
    DEFMRU = 2
    Chars = {1}
    Magic = {m1, m2}
    Asks = {"mru", "asyncmap", "chap", "upap", "magic"}
    Allows = {"mru", "asyncmap", "chap", "upap"}
    Mrus = {0, 2}
    MaxConfReqs = 3
    MaxNakLoops = 2
    Ends = {"a", "b"}
    OurAddrs <- mcOur
    HisAddrs <- mcHis
    Slots = {1, 2}
    OldVj = {}
    IpcpNakLoops = 1
INVARIANTS OptionsAgree AddressesAgree
PROPERTY Converges
CHECK_DEADLOCK FALSE
