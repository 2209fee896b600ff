SPECIFICATION FairSpec
CONSTANTS
    MaxConcurrent = 2
    MaxQueue = 1
    r1 = r1
    r2 = r2
    r3 = r3
    r4 = r4
    r5 = r5
    Requests <- MCRequests
INVARIANTS TypeOK TokensAccounted
PROPERTIES AcquireReturns Implements
