SPECIFICATION Spec
CONSTANTS
    a = a
    b = b
    Ends <- MCEnds
    ISS <- MCISS
    Plans <- MCPlans
    SeqSpace = 16
    MaxSeg = 1
    SndHiwat = 3
    RcvHiwat = 2
    MaxWin = 3
    MaxRxtShift = 1
    RexmtThresh = 2
INVARIANT NotStalled
CHECK_DEADLOCK FALSE
