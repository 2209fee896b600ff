SPECIFICATION FairSpec
CONSTANTS
    TTL = 1
    MaxVersion = 1
    None = None
    r1 = r1
    r2 = r2
    k1 = k1
    k2 = k2
    Requests <- MCRequests
    Keys <- MCKeys
INVARIANTS IInv NoOlderAnswer
PROPERTIES FreshSurvives ExpiredGoes
