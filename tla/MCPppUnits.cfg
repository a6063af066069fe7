SPECIFICATION UnitsSpec
CONSTANTS
    MaxConfReqs = 1
    MaxTermReqs = 1
    MaxNakLoops = 1
    IdMod = 2
    CI = {c}
    Malformed = Malformed
    MaxTransmits = 1
    Rechallenge = TRUE
    Passive = FALSE
    Silent = FALSE
    AuthRequired = TRUE
    GoAuth = {"chap"}
    HoAuth = {"upap"}
    EchoFails = 1
    FsmTimerBound = 1
    TimerBound = 2
INVARIANTS InterfaceNeedsLink NetworkPhase  OneEchoTimer
CHECK_DEADLOCK FALSE
