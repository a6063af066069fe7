SPECIFICATION Spec
CONSTANTS
    a = a
    b = b
    base = base
    full = full
    Peer = {a, b}
    CI = {base, full}
    Base = base
    Malformed = Malformed
    Want <- MCWant
    Allow <- MCAllow
    MaxConfReqs = 2
    MaxTermReqs = 2
    MaxNakLoops = 1
    IdMod = 3
    Prompt = FALSE
    Reopen = TRUE
    LossBound = 1
    CloseBound = 1
    TimerBound = 2
    WireBound = 2
INVARIANT Agreement
CHECK_DEADLOCK FALSE
