SPECIFICATION FairSpec
CONSTANTS
    a = a
    b = b
    base = base
    full = full
    Peer = {a, b}
    CI = {base, full}
    Base = base
    Malformed = Malformed
    Want <- MCWant
    Allow <- MCAllow
    MaxConfReqs = 4
    MaxTermReqs = 3
    MaxNakLoops = 1
    IdMod = 8
    Prompt = TRUE
    Reopen = FALSE
    LossBound = 2
    CloseBound = 1
    TimerBound = 2
    WireBound = 3
PROPERTIES BothOpen CloseHeard
CHECK_DEADLOCK FALSE
