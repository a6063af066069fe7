SPECIFICATION FsmSpec
CONSTANTS
    MaxConfReqs = 2
    MaxTermReqs = 2
    MaxNakLoops = 1
    IdMod = 3
    CI = {c1, c2}
    Malformed = Malformed
    RestartBound = 3
    NakBound = 2
INVARIANTS TypeOK TimerArmed UpMeansAgreed RestartBudget
PROPERTY OptionsStable
