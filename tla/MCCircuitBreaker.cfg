SPECIFICATION FairSpec
CONSTANTS
    SLO = 0
    Cooling = 1
    Horizon = 2
    Window = 3
    MinSamples = 2
    Trials = 2
    r1 = r1
    r2 = r2
    r3 = r3
    Requests <- MCRequests
INVARIANTS IInv ClosedWithinSLO
PROPERTIES QuietAfterFailure OnlyTrialsCount OpenIsProbed RecoveryCloses
